---- MODULE Spec2Model ----
(***************************************************************************)
(* URL shortener with analytics: the admission controller (rate limiter)   *)
(* of internal/middleware, the link store and resolver of                  *)
(* internal/services (URLService), the click recorder of                   *)
(* internal/services (AnalyticsService) and the redirect handler of        *)
(* internal/handlers, as one state machine.                                *)
(*                                                                         *)
(* Time is counted in whole seconds.  Every request is served by one of    *)
(* the request-handling contexts of Threads (net/http runs one goroutine   *)
(* per request).                                                           *)
(***************************************************************************)
EXTENDS Integers, Sequences, FiniteSets, TLC

VARIABLES
    now,        \* the wall clock read by time.Now(), in seconds
    mu,         \* RateLimiter.mu: 0 when free, else the thread holding it
    visitors,   \* RateLimiter.visitors: identity -> visitor, or Absent
    pc,         \* position of every request-handling context
    rq,         \* the request a context is serving
    lv,         \* allowRequest's locals: the time it read and the visitor it found
    resp,       \* the response a context wrote to its request (status 0: none yet)
    hist,       \* per identity: the record of the limiter's past decisions
    urls,       \* the rows of table urls, in rowid order
    clicks,     \* the rows of table clicks, in rowid order
    sv,         \* the locals of the handler and service call a context is in
    tasks       \* the goroutines RedirectURL has started, in the order of their start

vars == <<now, mu, visitors, pc, rq, lv, resp, hist, urls, clicks, sv, tasks>>

----------------------------------------------------------------------------
(* Bounds of the model *)

\* the clock stops advancing at MaxTime
MaxTime == 122
\* the decisions counted per window saturate at MaxSeen
MaxSeen == 15

\* amounts by which the clock advances between two steps
WindowSteps == {60, 61}
\* the clock of the runs that exercise the link store stops at MaxClock
MaxClock == 2
\* the redirects that resolve successfully in one run
MaxRedirects == 1
\* the recording goroutines of the runs in which several of them run together
MaxTasks == 2
\* the attempts counted per write of a goroutine saturate at MaxTries
MaxTries == 2

Threads == {1, 2, 3}
IPs == {"203.0.113.7", "10.0.0.2"}

----------------------------------------------------------------------------
(* internal/middleware: the rate limiter *)

maxRequests == 10
timeWindow == 60

\* no entry in the visitors map
Absent == [lastSeen |-> -1, requests |-> 0]

visitor(lastSeen, requests) == [lastSeen |-> lastSeen, requests |-> requests]

Min(a, b) == IF a < b THEN a ELSE b

\* a limiter that never removes an entry
cleanup_never(vs, n) == vs

\* a limiter that removes an entry as soon as it is one window old
cleanup_eager(vs, n) ==
    [ip \in IPs |->
        IF vs[ip] # Absent /\ n - vs[ip].lastSeen >= timeWindow
        THEN Absent ELSE vs[ip]]

\* RateLimiter.cleanup: delete every entry last seen more than two windows ago
cleanup(vs, n) ==
    [ip \in IPs |->
        IF vs[ip] # Absent /\ n - vs[ip].lastSeen > timeWindow * 2
        THEN Absent ELSE vs[ip]]

\* a limiter that notes the time of a request it rejects
allowRequest_touchOnReject(v, n) ==
    IF v = Absent
    THEN [allowed |-> TRUE, write |-> TRUE, entry |-> visitor(n, 1)]
    ELSE IF n - v.lastSeen > timeWindow
    THEN [allowed |-> TRUE, write |-> TRUE, entry |-> visitor(n, 1)]
    ELSE IF v.requests >= maxRequests
    THEN [allowed |-> FALSE, write |-> TRUE, entry |-> visitor(n, v.requests)]
    ELSE [allowed |-> TRUE, write |-> TRUE, entry |-> visitor(n, v.requests + 1)]

\* a limiter that does not count the request that creates or resets an entry
allowRequest_fromZero(v, n) ==
    IF v = Absent
    THEN [allowed |-> TRUE, write |-> TRUE, entry |-> visitor(n, 0)]
    ELSE IF n - v.lastSeen > timeWindow
    THEN [allowed |-> TRUE, write |-> TRUE, entry |-> visitor(n, 0)]
    ELSE IF v.requests >= maxRequests
    THEN [allowed |-> FALSE, write |-> FALSE, entry |-> v]
    ELSE [allowed |-> TRUE, write |-> TRUE, entry |-> visitor(n, v.requests + 1)]

\* a limiter that lets one request too many pass
allowRequest_offByOne(v, n) ==
    IF v = Absent
    THEN [allowed |-> TRUE, write |-> TRUE, entry |-> visitor(n, 1)]
    ELSE IF n - v.lastSeen > timeWindow
    THEN [allowed |-> TRUE, write |-> TRUE, entry |-> visitor(n, 1)]
    ELSE IF v.requests > maxRequests
    THEN [allowed |-> FALSE, write |-> FALSE, entry |-> v]
    ELSE [allowed |-> TRUE, write |-> TRUE, entry |-> visitor(n, v.requests + 1)]

\* a limiter that keeps lastSeen when it admits a request inside the window
allowRequest_fixedWindow(v, n) ==
    IF v = Absent
    THEN [allowed |-> TRUE, write |-> TRUE, entry |-> visitor(n, 1)]
    ELSE IF n - v.lastSeen > timeWindow
    THEN [allowed |-> TRUE, write |-> TRUE, entry |-> visitor(n, 1)]
    ELSE IF v.requests >= maxRequests
    THEN [allowed |-> FALSE, write |-> FALSE, entry |-> v]
    ELSE [allowed |-> TRUE, write |-> TRUE, entry |-> visitor(v.lastSeen, v.requests + 1)]

\* a limiter that never resets an entry
allowRequest_noReset(v, n) ==
    IF v = Absent
    THEN [allowed |-> TRUE, write |-> TRUE, entry |-> visitor(n, 1)]
    ELSE IF v.requests >= maxRequests
    THEN [allowed |-> FALSE, write |-> FALSE, entry |-> v]
    ELSE [allowed |-> TRUE, write |-> TRUE, entry |-> visitor(n, v.requests + 1)]

\* the body of allowRequest after the lookup: the verdict and the entry it leaves
allowRequest(v, n) ==
    IF v = Absent
    THEN [allowed |-> TRUE, write |-> TRUE, entry |-> visitor(n, 1)]
    ELSE IF n - v.lastSeen > timeWindow
    THEN [allowed |-> TRUE, write |-> TRUE, entry |-> visitor(n, 1)]
    ELSE IF v.requests >= maxRequests
    THEN [allowed |-> FALSE, write |-> FALSE, entry |-> v]
    ELSE [allowed |-> TRUE, write |-> TRUE, entry |-> visitor(n, v.requests + 1)]

\* a router that puts the limiter in front of every route
middlewareOf_everywhere(route) == <<"RateLimit", "CORS">>

\* main.go: the middleware in front of a route's handler.  The /api/v1
\* subrouter uses RateLimitMiddleware and CORSMiddleware, the root router none.
ApiRoutes == {"shorten", "analytics", "urls"}
middlewareOf(route) ==
    IF route \in ApiRoutes THEN <<"RateLimit", "CORS">> ELSE << >>

RateLimited(route) ==
    \E i \in 1..Len(middlewareOf(route)) : middlewareOf(route)[i] = "RateLimit"

----------------------------------------------------------------------------
(* What the limiter has decided so far, per identity.  None of it is read  *)
(* by the program.                                                         *)
(*   opened    when the entry was created or last reset (-1: never)        *)
(*   seen      requests decided since then, no later than opened + 60      *)
(*   inWindow  those of them that were admitted                            *)
(*   admitted  requests admitted since the entry was created or reset      *)
(*   log       the times of the admissions of the last 60 seconds          *)
(*   shadow    the entry in a limiter that decides the same requests at    *)
(*             the same times and never calls cleanup                      *)

NoHistory == [opened |-> -1, seen |-> 0, inWindow |-> 0, admitted |-> 0, log |-> << >>,
              shadow |-> Absent]

\* the admissions of log made at or after time from
Since(log, from) == SelectSeq(log, LAMBDA a : a >= from)

\* the history of an identity after a request read time n, found visitor v and got verdict d
Decided(h, v, n, d) ==
    LET fresh == v = Absent \/ n - v.lastSeen > timeWindow
        log1 == IF d.allowed THEN Append(Since(h.log, n - timeWindow), n) ELSE h.log
        sd == allowRequest(h.shadow, n)
        shadow1 == IF sd.write THEN sd.entry ELSE h.shadow
    IN  IF d.allowed /\ fresh
        THEN [opened |-> n, seen |-> 1, inWindow |-> 1, admitted |-> 1, log |-> log1,
              shadow |-> shadow1]
        ELSE LET inside == n - h.opened <= timeWindow
             IN [opened   |-> h.opened,
                 seen     |-> IF inside THEN Min(h.seen + 1, MaxSeen) ELSE h.seen,
                 inWindow |-> IF inside /\ d.allowed THEN h.inWindow + 1 ELSE h.inWindow,
                 admitted |-> IF d.allowed THEN h.admitted + 1 ELSE h.admitted,
                 log      |-> log1,
                 shadow   |-> shadow1]

----------------------------------------------------------------------------
(* internal/database and internal/services: the urls table *)

\* URLService.shortCodeExists: SELECT COUNT(*) FROM urls WHERE short_code = ?
shortCodeExists(shortCode) ==
    Cardinality({i \in 1..Len(urls) : urls[i].short_code = shortCode}) > 0

----------------------------------------------------------------------------
(* Requests and responses *)

\* a nil *time.Time
NoExpiry == -1
NoURL == [scheme |-> "", rest |-> ""]

\* route: the route the router matched; code: the {shortCode} of the path or
\* the custom_code of the body; url, expiresAt: original_url and expires_at
Request(route, ip, code, url, expiresAt) ==
    [route |-> route, ip |-> ip, code |-> code, url |-> url, expiresAt |-> expiresAt]

NoRequest == Request("none", "", << >>, NoURL, NoExpiry)

\* now, v: locals of allowRequest; recent: the admissions of the identity in
\* the last timeWindow seconds (not read by the program); ip: the identity
\* RateLimitMiddleware computed from the headers and the peer address
NoLocals == [now |-> -1, v |-> Absent, recent |-> -1, ip |-> << >>]

\* status, the Location header, the error and message of an ErrorResponse,
\* the payload of a success
Response(status, location, error, message, body) ==
    [status |-> status, location |-> location, error |-> error,
     message |-> message, body |-> body]

NoResponse == Response(0, NoURL, "", "", << >>)

\* shortCode, created_at, i: locals of ShortenURL and generateUniqueShortCode;
\* target: the row RedirectURL resolved; wasFree: whether the code asked for
\* was unused when the request reached its handler (not read by the program)
\* analytics: the Analytics that GetAnalytics is filling in; atCall: the
\* clicks of the code asked for when GetAnalytics was called (not read by
\* the program); clientIP: the identity the handler computed from the
\* headers and the peer address
NoAnalytics == [url |-> << >>, total_clicks |-> 0, unique_visitors |-> 0,
                clicks_by_country |-> << >>, clicks_by_day |-> << >>, recent_clicks |-> << >>]
NoService == [shortCode |-> << >>, created_at |-> -1, i |-> 0, target |-> NoURL, wasFree |-> FALSE,
              analytics |-> NoAnalytics, atCall |-> 0, clientIP |-> << >>]

NoClick == [url_short_code |-> << >>, ip_address |-> "", country |-> "", city |-> "", clicked_at |-> -1]
\* a goroutine not started yet
\* owner, responded: the context that started it and whether that context
\* has answered; recordTries, incrementTries: the calls made of RecordClick
\* and IncrementClickCount; recorded, incremented: whether one succeeded;
\* snapshot: the click_count of its link when it was started (owner to
\* snapshot are not read by the program)
NoTask == [pc |-> "none", click |-> NoClick, owner |-> 0, responded |-> FALSE,
           recordTries |-> 0, incrementTries |-> 0,
           recorded |-> FALSE, incremented |-> FALSE, snapshot |-> 0]

Init ==
    /\ now = 0
    /\ mu = 0
    /\ visitors = [ip \in IPs |-> Absent]
    /\ pc = [t \in Threads |-> "idle"]
    /\ rq = [t \in Threads |-> NoRequest]
    /\ lv = [t \in Threads |-> NoLocals]
    /\ resp = [t \in Threads |-> NoResponse]
    /\ hist = [ip \in IPs |-> NoHistory]
    /\ urls = << >>
    /\ clicks = << >>
    /\ sv = [t \in Threads |-> NoService]
    /\ tasks = [k \in 1..MaxTasks |-> NoTask]

\* a run serves a redirect request only while fewer than n goroutines are
\* started or about to be
RoomFor(r, n) ==
    r.route = "redirect" =>
        Cardinality({k \in 1..MaxTasks : tasks[k].pc # "none"})
          + Cardinality({u \in Threads : pc[u] = "handler" /\ rq[u].route = "redirect"})
        < n

Room(r) == RoomFor(r, MaxRedirects)

\* time passes
Tick(steps, max) ==
    /\ \E d \in steps : now + d <= max /\ now' = now + d
    /\ UNCHANGED <<mu, visitors, pc, rq, lv, resp, hist, urls, clicks, sv, tasks>>

\* a request arrives at the router and is dispatched: to RateLimitMiddleware
\* on a route of the /api/v1 subrouter, else straight to the handler
Arrive(t, r) ==
    /\ pc[t] = "idle"
    /\ Room(r)
    /\ rq' = [rq EXCEPT ![t] = r]
    /\ resp' = [resp EXCEPT ![t] = NoResponse]
    /\ lv' = [lv EXCEPT ![t] = NoLocals]
    /\ pc' = [pc EXCEPT ![t] = IF RateLimited(r.route) THEN "allowRequest" ELSE "handler"]
    /\ sv' = [sv EXCEPT ![t] = [NoService EXCEPT !.wasFree = ~shortCodeExists(r.code)]]
    /\ UNCHANGED <<now, mu, visitors, hist, urls, clicks, tasks>>

\* a Lock that never blocks
lockFree_always(m) == TRUE

\* the guard of rl.mu.Lock()
lockFree(m) == m = 0

\* allowRequest, first half: lock, read the clock, clean up, look the identity up
allowRequestLock(t) ==
    /\ pc[t] = "allowRequest"
    /\ lockFree(mu)
    /\ mu' = t
    /\ visitors' = cleanup(visitors, now)
    /\ lv' = [lv EXCEPT ![t] = [NoLocals EXCEPT !.now = now, !.v = visitors'[rq[t].ip]]]
    /\ pc' = [pc EXCEPT ![t] = "decide"]
    /\ UNCHANGED <<now, rq, resp, hist, urls, clicks, sv, tasks>>

\* allowRequest, second half: decide, store the entry, unlock; then the
\* middleware answers 429 or calls the next handler
allowRequestDecide(t) ==
    /\ pc[t] = "decide"
    /\ LET ip == rq[t].ip
           n == lv[t].now
           d == allowRequest(lv[t].v, n)
       IN /\ visitors' = IF d.write THEN [visitors EXCEPT ![ip] = d.entry] ELSE visitors
          /\ hist' = [hist EXCEPT ![ip] = Decided(@, lv[t].v, n, d)]
          /\ lv' = [lv EXCEPT ![t].recent = Len(Since(hist[ip].log, n - timeWindow))]
          /\ IF d.allowed
             THEN /\ pc' = [pc EXCEPT ![t] = "handler"]
                  /\ UNCHANGED resp
             ELSE /\ pc' = [pc EXCEPT ![t] = "idle"]
                  /\ resp' = [resp EXCEPT ![t] =
                         Response(429, NoURL, "", "Rate limit exceeded. Try again later.", << >>)]
    /\ mu' = 0
    /\ UNCHANGED <<now, rq, urls, clicks, sv, tasks>>

----------------------------------------------------------------------------
(* internal/services: URLService *)

\* ORDER BY created_at DESC: rows sorted newest first, rows of equal
\* created_at left in rowid order
RECURSIVE OrderByCreatedAtDesc(_)
OrderByCreatedAtDesc(rows) ==
    IF rows = << >> THEN << >>
    ELSE LET rest == OrderByCreatedAtDesc(Tail(rows))
             r == Head(rows)
             before == SelectSeq(rest, LAMBDA x : x.created_at > r.created_at)
             after == SelectSeq(rest, LAMBDA x : x.created_at <= r.created_at)
         IN before \o <<r>> \o after

\* a query without ORDER BY, answered in rowid order
GetUserURLs_unordered(userIP) == SelectSeq(urls, LAMBDA u : u.user_ip = userIP)

\* URLService.GetUserURLs: the rows of urls whose user_ip is userIP, newest first
GetUserURLs(userIP) ==
    OrderByCreatedAtDesc(SelectSeq(urls, LAMBDA u : u.user_ip = userIP))

----------------------------------------------------------------------------
(* internal/handlers: URLHandler *)

\* URLHandler.GetUserURLs, GET /api/v1/urls
GetUserURLsHandler(t) ==
    /\ pc[t] = "handler"
    /\ rq[t].route = "urls"
    /\ resp' = [resp EXCEPT ![t] = Response(200, NoURL, "", "", GetUserURLs(rq[t].ip))]
    /\ pc' = [pc EXCEPT ![t] = "idle"]
    /\ UNCHANGED <<now, mu, visitors, rq, lv, hist, urls, clicks, sv, tasks>>

----------------------------------------------------------------------------
(* internal/services: creating and resolving links *)

shortCodeLength == 6
maxRetries == 5
\* the constant charset, character by character
charsetAt ==
    <<"a","b","c","d","e","f","g","h","i","j","k","l","m","n","o","p","q","r","s","t","u","v","w","x","y","z",
      "A","B","C","D","E","F","G","H","I","J","K","L","M","N","O","P","Q","R","S","T","U","V","W","X","Y","Z",
      "0","1","2","3","4","5","6","7","8","9">>
charset == {charsetAt[i] : i \in 1..Len(charsetAt)}

\* a generator that stops one character early
generateRandomCode_oneShort(length, randomIndex) ==
    [i \in 1..(length - 1) |-> charsetAt[randomIndex[i] + 1]]

\* generateRandomCode(length): result[i] = charset[randomIndex] for each of
\* the length positions, randomIndex being what rand.Int(rand.Reader, 62)
\* returned for that position, a number in 0..61
generateRandomCode(length, randomIndex) ==
    [i \in 1..length |-> charsetAt[randomIndex[i] + 1]]

\* the two sequences of random numbers a run draws from
Random1 == generateRandomCode(shortCodeLength, <<0, 1, 2, 53, 54, 55>>)
Random2 == generateRandomCode(shortCodeLength, <<23, 50, 56, 25, 61, 42>>)
RandomCodes == {Random1, Random2}

\* the characters of this model that UTF-8 encodes in two bytes
TwoByte == {"é"}

\* len(code): a Go string's length is its number of bytes; a code is kept
\* here as the sequence of its characters
RECURSIVE ByteLen(_)
ByteLen(code) ==
    IF code = << >> THEN 0
    ELSE (IF Head(code) \in TwoByte THEN 2 ELSE 1) + ByteLen(Tail(code))

\* a length check with && in place of ||
validateCustomCode_andForOr(code) ==
    IF ByteLen(code) < 3 /\ ByteLen(code) > 20
    THEN "custom code must be between 3 and 20 characters"
    ELSE IF \E i \in 1..Len(code) : code[i] \notin charset
    THEN "custom code can only contain alphanumeric characters"
    ELSE IF shortCodeExists(code)
    THEN "custom code already exists"
    ELSE ""

\* a validation that leaves the duplicate to the INSERT
validateCustomCode_noExistsCheck(code) ==
    IF ByteLen(code) < 3 \/ ByteLen(code) > 20
    THEN "custom code must be between 3 and 20 characters"
    ELSE IF \E i \in 1..Len(code) : code[i] \notin charset
    THEN "custom code can only contain alphanumeric characters"
    ELSE ""

\* URLService.validateCustomCode: "" when the code is accepted, else the error
validateCustomCode(code) ==
    IF ByteLen(code) < 3 \/ ByteLen(code) > 20
    THEN "custom code must be between 3 and 20 characters"
    ELSE IF \E i \in 1..Len(code) : code[i] \notin charset
    THEN "custom code can only contain alphanumeric characters"
    ELSE IF shortCodeExists(code)
    THEN "custom code already exists"
    ELSE ""

\* a urls table without the UNIQUE constraint
uniqueShortCode_none(rows, shortCode) == TRUE

\* the constraint short_code UNIQUE of table urls: may a row with this code be inserted
uniqueShortCode(rows, shortCode) ==
    \A i \in 1..Len(rows) : rows[i].short_code # shortCode

\* an expiry check that grants one more second
After_grace(t, u) == t > u + 1

\* an expiry that already holds at the instant expires_at
After_inclusive(t, u) == t >= u

\* time.Now().After(*url.ExpiresAt), for a non-nil ExpiresAt
After(t, u) == t > u

\* a resolver that does not look at expires_at
GetOriginalURL_ignoresExpiry(rows, clock, shortCode) ==
    LET found == SelectSeq(rows, LAMBDA u : u.short_code = shortCode)
    IN IF found = << >> THEN [err |-> "short code not found", url |-> << >>]
       ELSE [err |-> "", url |-> <<found[1]>>]

\* a resolver that compares the clock with expires_at without the nil check
GetOriginalURL_noNilCheck(rows, clock, shortCode) ==
    LET found == {i \in 1..Len(rows) : rows[i].short_code = shortCode}
    IN  IF found = {}
        THEN [err |-> "short code not found", url |-> << >>]
        ELSE LET url == rows[CHOOSE i \in found : \A j \in found : i <= j]
             IN IF After(clock, url.expires_at)
                THEN [err |-> "URL has expired", url |-> << >>]
                ELSE [err |-> "", url |-> <<url>>]

\* URLService.GetOriginalURL over the rows of urls at time clock
GetOriginalURL(rows, clock, shortCode) ==
    LET found == {i \in 1..Len(rows) : rows[i].short_code = shortCode}
    IN  IF found = {}
        THEN [err |-> "short code not found", url |-> << >>]
        ELSE LET url == rows[CHOOSE i \in found : \A j \in found : i <= j]
             IN IF url.expires_at # NoExpiry /\ After(clock, url.expires_at)
                THEN [err |-> "URL has expired", url |-> << >>]
                ELSE [err |-> "", url |-> <<url>>]

\* strings.HasPrefix(req.OriginalURL, "http://") || ... "https://"
\* an UPDATE without its WHERE clause
incrementClicks_all(rows, shortCode) ==
    [i \in 1..Len(rows) |-> [rows[i] EXCEPT !.click_count = @ + 1]]

\* UPDATE urls SET click_count = click_count + 1 WHERE short_code = ?
incrementClicks(rows, shortCode) ==
    [i \in 1..Len(rows) |->
        IF rows[i].short_code = shortCode
        THEN [rows[i] EXCEPT !.click_count = @ + 1] ELSE rows[i]]

\* a resolver that counts the click itself
afterSelect_counts(rows, shortCode) == incrementClicks(rows, shortCode)

\* a resolver that deletes the row it finds expired
afterSelect_purge(rows, shortCode) ==
    SelectSeq(rows, LAMBDA u : ~(/\ u.short_code = shortCode
                                 /\ u.expires_at # NoExpiry
                                 /\ After(now, u.expires_at)))

\* table urls after the statement of GetOriginalURL, a SELECT
afterSelect(rows, shortCode) == rows

HasHTTPPrefix(url) == url.scheme = "http://" \/ url.scheme = "https://"

\* a handler answers and its context is free again
Answer(t, r) ==
    /\ resp' = [resp EXCEPT ![t] = r]
    /\ pc' = [pc EXCEPT ![t] = "idle"]

\* URLHandler.ShortenURL up to the first statement of URLService.ShortenURL
\* that reads the store: the check of the URL, validateCustomCode
ShortenURLHandler(t) ==
    /\ pc[t] = "handler"
    /\ rq[t].route = "shorten"
    /\ IF ~HasHTTPPrefix(rq[t].url)
       THEN /\ Answer(t, Response(400, NoURL, "Invalid URL",
                                  "URL must start with http:// or https://", << >>))
            /\ UNCHANGED sv
       ELSE IF rq[t].code # << >>
       THEN LET err == validateCustomCode(rq[t].code)
            IN IF err # ""
               THEN /\ Answer(t, Response(400, NoURL, "Failed to shorten URL", err, << >>))
                    /\ UNCHANGED sv
               ELSE /\ pc' = [pc EXCEPT ![t] = "insert"]
                    /\ sv' = [sv EXCEPT ![t].shortCode = rq[t].code, ![t].created_at = now]
                    /\ UNCHANGED resp
       ELSE /\ pc' = [pc EXCEPT ![t] = "generate"]
            /\ sv' = [sv EXCEPT ![t].i = 0]
            /\ UNCHANGED resp
    /\ UNCHANGED <<now, mu, visitors, rq, lv, hist, urls, clicks, tasks>>

\* a loop that makes one turn more
nextTurn_inclusive(i) == i <= maxRetries

\* the loop condition of URLService.generateUniqueShortCode: i < maxRetries
nextTurn(i) == i < maxRetries

\* one turn of the loop of URLService.generateUniqueShortCode, with
\* generateRandomCode drawing from codes; sv[t].i is the loop variable, the
\* number of codes drawn before this turn, all of which existed
generateUniqueShortCode(t, codes) ==
    /\ pc[t] = "generate"
    /\ \E code \in codes :
          IF ~shortCodeExists(code)
          THEN /\ pc' = [pc EXCEPT ![t] = "insert"]
               /\ sv' = [sv EXCEPT ![t].shortCode = code, ![t].created_at = now]
               /\ UNCHANGED resp
          ELSE IF nextTurn(sv[t].i + 1)
          THEN /\ sv' = [sv EXCEPT ![t].i = @ + 1]
               /\ UNCHANGED <<pc, resp>>
          ELSE /\ Answer(t, Response(400, NoURL, "Failed to shorten URL",
                             "failed to generate unique short code after 5 retries", << >>))
               /\ sv' = [sv EXCEPT ![t].i = @ + 1]
    /\ UNCHANGED <<now, mu, visitors, rq, lv, hist, urls, clicks, tasks>>

\* an INSERT OR REPLACE: the row that has the code gives way to the new one
rejected_replace(rows, url) ==
    [i \in 1..Len(rows) |->
        IF rows[i].short_code = url.short_code THEN [url EXCEPT !.id = rows[i].id] ELSE rows[i]]

\* table urls after an INSERT that the UNIQUE constraint on short_code
\* rejected
rejected(rows, url) == rows

\* the INSERT of URLService.ShortenURL and the answer of URLHandler.ShortenURL
insertURL(t) ==
    /\ pc[t] = "insert"
    /\ LET url == [id |-> Len(urls) + 1,
                   short_code |-> sv[t].shortCode,
                   original_url |-> rq[t].url,
                   created_at |-> sv[t].created_at,
                   expires_at |-> rq[t].expiresAt,
                   click_count |-> 0,
                   user_ip |-> rq[t].ip,
                   is_custom |-> rq[t].code # << >>]
       IN IF uniqueShortCode(urls, sv[t].shortCode)
          THEN /\ urls' = Append(urls, url)
               /\ Answer(t, Response(201, NoURL, "", "", <<url>>))
          ELSE /\ urls' = rejected(urls, url)
               /\ Answer(t, Response(400, NoURL, "Failed to shorten URL", "failed to save URL", << >>))
    /\ UNCHANGED <<now, mu, visitors, rq, lv, hist, clicks, sv, tasks>>

----------------------------------------------------------------------------
(* The redirect and its background recording *)

LocalIPs == {"127.0.0.1", "::1", "", "localhost"}
\* the identities of this model that isPrivateIP accepts
PrivateIPs == {"10.0.0.2", "192.168.1.100"}
\* what the geolocation service may answer for a public address, failure included
GeoAnswers == {<<"Unknown", "Unknown">>, <<"Romania", "Cluj">>}

\* AnalyticsService.GetLocationFromIP: the pairs <<country, city>> it can return
GetLocationFromIP(ip) ==
    IF ip \in LocalIPs THEN {<<"Local", "Local">>}
    ELSE IF ip \in PrivateIPs THEN {<<"Local Network", "Local Network">>}
    ELSE GeoAnswers

Started == {k \in 1..MaxTasks : tasks[k].pc # "none"}

\* URLHandler.RedirectURL up to and including the go statement
RedirectURL(t) ==
    /\ pc[t] = "handler"
    /\ rq[t].route = "redirect"
    /\ IF rq[t].code = << >>
       THEN /\ Answer(t, Response(400, NoURL, "Missing short code", "", << >>))
            /\ UNCHANGED <<sv, tasks>>
       ELSE LET got == GetOriginalURL(urls, now, rq[t].code)
            IN IF got.err # ""
               THEN /\ Answer(t, Response(404, NoURL, "URL not found", got.err, << >>))
                    /\ UNCHANGED <<sv, tasks>>
               ELSE \E loc \in GetLocationFromIP(rq[t].ip) :
                      LET click == [url_short_code |-> rq[t].code,
                                    ip_address |-> rq[t].ip,
                                    country |-> loc[1],
                                    city |-> loc[2],
                                    clicked_at |-> now]
                          k == Cardinality(Started) + 1
                      IN /\ tasks' = [tasks EXCEPT ![k] =
                                [NoTask EXCEPT !.pc = "RecordClick", !.click = click,
                                               !.owner = t,
                                               !.snapshot = got.url[1].click_count]]
                         /\ sv' = [sv EXCEPT ![t].target = got.url[1].original_url]
                         /\ pc' = [pc EXCEPT ![t] = "redirect"]
                         /\ UNCHANGED resp
    /\ urls' = IF rq[t].code = << >> THEN urls ELSE afterSelect(urls, rq[t].code)
    /\ UNCHANGED <<now, mu, visitors, rq, lv, hist, clicks>>

\* a handler that waits for the goroutine it started
mayRespond_await(t) ==
    \A k \in 1..MaxTasks : tasks[k].owner = t => tasks[k].pc = "done"

\* between the go statement and http.Redirect the handler waits for nothing
mayRespond(t) == TRUE

\* the last statement of RedirectURL: http.Redirect(w, r, url.OriginalURL, 301)
RedirectRespond(t) ==
    /\ pc[t] = "redirect"
    /\ mayRespond(t)
    /\ Answer(t, Response(301, sv[t].target, "", "", << >>))
    /\ tasks' = [k \in 1..MaxTasks |->
                    IF tasks[k].owner = t THEN [tasks[k] EXCEPT !.responded = TRUE]
                    ELSE tasks[k]]
    /\ UNCHANGED <<now, mu, visitors, rq, lv, hist, urls, clicks, sv>>

\* a goroutine that repeats a failed call
afterError_retry(stage, next) == stage

\* a goroutine that returns at its first error
afterError_return(stage, next) == "done"

\* url_handler.go: if err := ...; err != nil { fmt.Printf(...) }: the error
\* is printed and the goroutine goes on to its next statement
afterError(stage, next) == next

\* a write that is acknowledged and lost
insertClick_lost(rows, click) == rows

\* a write that is made twice
insertClick_twice(rows, click) ==
    Append(Append(rows, [id |-> Len(rows) + 1] @@ click), [id |-> Len(rows) + 2] @@ click)

\* INSERT INTO clicks (...) VALUES (...)
insertClick(rows, click) == Append(rows, [id |-> Len(rows) + 1] @@ click)

\* the goroutine's first call, AnalyticsService.RecordClick, succeeding
RecordClick(k) ==
    /\ tasks[k].pc = "RecordClick"
    /\ clicks' = insertClick(clicks, tasks[k].click)
    /\ tasks' = [tasks EXCEPT ![k].pc = "IncrementClickCount",
                              ![k].recordTries = Min(@ + 1, MaxTries),
                              ![k].recorded = TRUE]
    /\ UNCHANGED <<now, mu, visitors, pc, rq, lv, resp, hist, urls, sv>>

\* the same call when db.Exec returns an error: nothing is inserted
RecordClickFails(k) ==
    /\ tasks[k].pc = "RecordClick"
    /\ tasks' = [tasks EXCEPT ![k].pc = afterError("RecordClick", "IncrementClickCount"),
                              ![k].recordTries = Min(@ + 1, MaxTries)]
    /\ UNCHANGED <<now, mu, visitors, pc, rq, lv, resp, hist, urls, clicks, sv>>

\* an increment computed from the click_count read when the goroutine started
written_readBefore(k, rows) ==
    [i \in 1..Len(rows) |->
        IF rows[i].short_code = tasks[k].click.url_short_code
        THEN [rows[i] EXCEPT !.click_count = tasks[k].snapshot + 1] ELSE rows[i]]

\* table urls after goroutine k's UPDATE: one statement, which reads and
\* writes click_count in the same step
written(k, rows) == incrementClicks(rows, tasks[k].click.url_short_code)

\* the goroutine's second call, URLService.IncrementClickCount, succeeding
IncrementClickCount(k) ==
    /\ tasks[k].pc = "IncrementClickCount"
    /\ urls' = written(k, urls)
    /\ tasks' = [tasks EXCEPT ![k].pc = "done",
                              ![k].incrementTries = Min(@ + 1, MaxTries),
                              ![k].incremented = TRUE]
    /\ UNCHANGED <<now, mu, visitors, pc, rq, lv, resp, hist, clicks, sv>>

\* the same call when db.Exec returns an error: no row is updated
IncrementClickCountFails(k) ==
    /\ tasks[k].pc = "IncrementClickCount"
    /\ tasks' = [tasks EXCEPT ![k].pc = afterError("IncrementClickCount", "done"),
                              ![k].incrementTries = Min(@ + 1, MaxTries)]
    /\ UNCHANGED <<now, mu, visitors, pc, rq, lv, resp, hist, urls, clicks, sv>>

----------------------------------------------------------------------------
(* internal/services: AnalyticsService.GetAnalytics, one step per query *)

Max(S) == CHOOSE x \in S : \A y \in S : x >= y

\* the elements of a finite set of numbers, largest first
RECURSIVE Descending(_)
Descending(S) ==
    IF S = {} THEN << >> ELSE <<Max(S)>> \o Descending(S \ {Max(S)})

\* the rows of clicks WHERE url_short_code = shortCode, in rowid order
ClicksOf(rows, shortCode) == SelectSeq(rows, LAMBDA c : c.url_short_code = shortCode)

\* a lookup that refuses expired links, as GetOriginalURL does
getURLByShortCode_expiring(rows, clock, shortCode) == GetOriginalURL(rows, clock, shortCode)

\* AnalyticsService.getURLByShortCode; clock is not used: expires_at is not looked at
getURLByShortCode(rows, clock, shortCode) ==
    LET found == SelectSeq(rows, LAMBDA u : u.short_code = shortCode)
    IN IF found = << >> THEN [err |-> "short code not found", url |-> << >>]
       ELSE [err |-> "", url |-> <<found[1]>>]

\* a count without its WHERE clause
getTotalClicks_all(rows, shortCode) == Len(rows)

\* SELECT COUNT(*) FROM clicks WHERE url_short_code = ?
getTotalClicks(rows, shortCode) == Len(ClicksOf(rows, shortCode))

\* a count without DISTINCT
getUniqueVisitors_notDistinct(rows, shortCode) == Len(ClicksOf(rows, shortCode))

\* SELECT COUNT(DISTINCT ip_address) FROM clicks WHERE url_short_code = ?
getUniqueVisitors(rows, shortCode) ==
    LET cs == ClicksOf(rows, shortCode)
    IN Cardinality({cs[i].ip_address : i \in 1..Len(cs)})

\* AnalyticsService.getClicksByCountry: the maps it can return.  The rows
\* with a non-empty country are grouped by country and the 10 groups with
\* the highest counts kept; which of several groups of equal count are kept
\* is not fixed by the query
getClicksByCountry(rows, shortCode) ==
    LET cs == SelectSeq(ClicksOf(rows, shortCode), LAMBDA c : c.country # "")
        groups == {cs[i].country : i \in 1..Len(cs)}
        count(g) == Cardinality({i \in 1..Len(cs) : cs[i].country = g})
        keep == Min(10, Cardinality(groups))
    IN {[g \in kept |-> count(g)] :
           kept \in {K \in SUBSET groups :
                        /\ Cardinality(K) = keep
                        /\ \A a \in K, b \in groups \ K : count(a) >= count(b)}}

\* the seconds of a day, for DATE(clicked_at)
SecondsPerDay == 86400

\* AnalyticsService.getClicksByDay: the clicks of the last days days grouped
\* by DATE(clicked_at), latest date first
getClicksByDay(rows, shortCode, days, clock) ==
    LET cs == SelectSeq(ClicksOf(rows, shortCode),
                        LAMBDA c : c.clicked_at >= clock - days * SecondsPerDay)
        date(c) == c.clicked_at \div SecondsPerDay
        dates == Descending({date(cs[i]) : i \in 1..Len(cs)})
    IN [n \in 1..Len(dates) |->
          [date |-> dates[n],
           clicks |-> Cardinality({i \in 1..Len(cs) : date(cs[i]) = dates[n]})]]

\* the orders in which ORDER BY clicked_at DESC can return the rows idx of
\* cs: a row with the greatest clicked_at, then the others likewise
RECURSIVE ByClickedAtDesc(_, _)
ByClickedAtDesc(cs, idx) ==
    IF idx = {} THEN {<< >>}
    ELSE LET first == {i \in idx : \A j \in idx : cs[i].clicked_at >= cs[j].clicked_at}
         IN UNION {{<<i>> \o rest : rest \in ByClickedAtDesc(cs, idx \ {i})} : i \in first}

\* AnalyticsService.getRecentClicks: the lists it can return.  ORDER BY
\* clicked_at DESC LIMIT ?: the order of rows of equal clicked_at is not
\* fixed by the query
getRecentClicks(rows, shortCode, limit) ==
    LET cs == ClicksOf(rows, shortCode)
        n == Len(cs)
    IN {[i \in 1..Min(limit, n) |-> cs[p[i]]] : p \in ByClickedAtDesc(cs, 1..n)}

\* URLHandler.GetAnalytics, GET /api/v1/analytics/{shortCode}, up to the
\* first query of AnalyticsService.GetAnalytics, getURLByShortCode
GetAnalyticsHandler(t) ==
    /\ pc[t] = "handler"
    /\ rq[t].route = "analytics"
    /\ IF rq[t].code = << >>
       THEN /\ Answer(t, Response(400, NoURL, "Missing short code", "", << >>))
            /\ UNCHANGED sv
       ELSE LET got == getURLByShortCode(urls, now, rq[t].code)
            IN IF got.err # ""
               THEN /\ Answer(t, Response(404, NoURL, "Analytics not found", got.err, << >>))
                    /\ UNCHANGED sv
               ELSE /\ sv' = [sv EXCEPT ![t].analytics = [NoAnalytics EXCEPT !.url = got.url],
                                        ![t].atCall = Len(ClicksOf(clicks, rq[t].code))]
                    /\ pc' = [pc EXCEPT ![t] = "getTotalClicks"]
                    /\ UNCHANGED resp
    /\ UNCHANGED <<now, mu, visitors, rq, lv, hist, urls, clicks, tasks>>

\* the second query of GetAnalytics
GetTotalClicks(t) ==
    /\ pc[t] = "getTotalClicks"
    /\ sv' = [sv EXCEPT ![t].analytics.total_clicks = getTotalClicks(clicks, rq[t].code)]
    /\ pc' = [pc EXCEPT ![t] = "getUniqueVisitors"]
    /\ UNCHANGED <<now, mu, visitors, rq, lv, resp, hist, urls, clicks, tasks>>

\* the third query of GetAnalytics
GetUniqueVisitors(t) ==
    /\ pc[t] = "getUniqueVisitors"
    /\ sv' = [sv EXCEPT ![t].analytics.unique_visitors = getUniqueVisitors(clicks, rq[t].code)]
    /\ pc' = [pc EXCEPT ![t] = "getClicksByCountry"]
    /\ UNCHANGED <<now, mu, visitors, rq, lv, resp, hist, urls, clicks, tasks>>

\* the fourth query of GetAnalytics
GetClicksByCountry(t) ==
    /\ pc[t] = "getClicksByCountry"
    /\ \E m \in getClicksByCountry(clicks, rq[t].code) :
          sv' = [sv EXCEPT ![t].analytics.clicks_by_country = m]
    /\ pc' = [pc EXCEPT ![t] = "getClicksByDay"]
    /\ UNCHANGED <<now, mu, visitors, rq, lv, resp, hist, urls, clicks, tasks>>

\* the fifth query of GetAnalytics
GetClicksByDay(t) ==
    /\ pc[t] = "getClicksByDay"
    /\ sv' = [sv EXCEPT ![t].analytics.clicks_by_day = getClicksByDay(clicks, rq[t].code, 30, now)]
    /\ pc' = [pc EXCEPT ![t] = "getRecentClicks"]
    /\ UNCHANGED <<now, mu, visitors, rq, lv, resp, hist, urls, clicks, tasks>>

\* the sixth query of GetAnalytics and the answer of URLHandler.GetAnalytics
GetRecentClicks(t) ==
    /\ pc[t] = "getRecentClicks"
    /\ \E recent \in getRecentClicks(clicks, rq[t].code, 10) :
          LET analytics == [sv[t].analytics EXCEPT !.recent_clicks = recent]
          IN /\ sv' = [sv EXCEPT ![t].analytics = analytics]
             /\ Answer(t, Response(200, NoURL, "", "", <<analytics>>))
    /\ UNCHANGED <<now, mu, visitors, rq, lv, hist, urls, clicks, tasks>>

\* a request reaches its handler: the middleware in front of it, if any, let
\* it pass, or the caller invoked the service directly as tests/ does; n
\* bounds the goroutines of the run
Enter(t, r, n) ==
    /\ pc[t] = "idle"
    /\ RoomFor(r, n)
    /\ rq' = [rq EXCEPT ![t] = r]
    /\ resp' = [resp EXCEPT ![t] = NoResponse]
    /\ sv' = [sv EXCEPT ![t] = [NoService EXCEPT !.wasFree = ~shortCodeExists(r.code)]]
    /\ pc' = [pc EXCEPT ![t] = "handler"]
    /\ UNCHANGED <<now, mu, visitors, lv, hist, urls, clicks, tasks>>

Admit(t, r) == Enter(t, r, MaxRedirects)

----------------------------------------------------------------------------
(* The requests of the runs *)

Dup == <<"d","u","p">>
UrlA == [scheme |-> "https://", rest |-> "example.com/a"]
UrlB == [scheme |-> "http://", rest |-> "example.com/b"]
Owner == "10.0.0.2"

\* POST /api/v1/shorten: with and without custom_code, with and without expires_at
ShortenRequests ==
    {Request("shorten", Owner, Dup, UrlA, NoExpiry),
     Request("shorten", Owner, Dup, UrlB, 1),
     Request("shorten", Owner, << >>, UrlB, NoExpiry),
     Request("shorten", Owner, << >>, UrlA, 1)}

\* GET /{shortCode}
RedirectRequests ==
    {Request("redirect", Owner, code, NoURL, NoExpiry) : code \in {Dup, Random1}}

\* GET /api/v1/urls
UrlsRequests == {Request("urls", ip, << >>, NoURL, NoExpiry) : ip \in IPs}

----------------------------------------------------------------------------
(* The link store, the resolver and the click recorder under one request   *)
(* at a time, the recording goroutines running beside it                   *)

NextStore ==
    \/ Tick({1}, MaxClock)
    \/ \E r \in ShortenRequests \cup RedirectRequests : Admit(1, r)
    \/ ShortenURLHandler(1)
    \/ generateUniqueShortCode(1, {Random1})
    \/ insertURL(1)
    \/ RedirectURL(1)
    \/ RedirectRespond(1)
    \/ \E k \in 1..MaxRedirects :
          \/ RecordClick(k)
          \/ IncrementClickCount(k)

SpecStore == Init /\ [][NextStore]_vars

----------------------------------------------------------------------------
(* Concurrent creators *)

NextCreate ==
    \E t \in Threads :
       \/ \E r \in {q \in ShortenRequests : q.expiresAt = NoExpiry} : Admit(t, r)
       \/ ShortenURLHandler(t)
       \/ generateUniqueShortCode(t, RandomCodes)
       \/ insertURL(t)

SpecCreate == Init /\ [][NextCreate]_vars

----------------------------------------------------------------------------
(* The admission controller in front of GET /api/v1/urls *)

\* the requests of the identities ips, served by the contexts threads
Limiter(threads, ips) ==
    \/ Tick(WindowSteps, MaxTime)
    \/ \E t \in threads :
          \/ \E r \in {q \in UrlsRequests : q.ip \in ips} : Arrive(t, r)
          \/ allowRequestLock(t)
          \/ allowRequestDecide(t)
          \/ GetUserURLsHandler(t)

\* every identity, one request at a time
NextLimiter == Limiter({1}, IPs)
SpecLimiter == Init /\ [][NextLimiter]_vars

\* one identity, requests in parallel
NextParallel == Limiter({1, 2}, {Owner})
SpecParallel == Init /\ [][NextParallel]_vars

----------------------------------------------------------------------------
(* The router: one client on the API routes and on the redirect route *)

RouterRequests ==
    {Request("shorten", Owner, Dup, UrlA, NoExpiry),
     Request("urls", Owner, << >>, NoURL, NoExpiry),
     Request("redirect", Owner, Dup, NoURL, NoExpiry),
     Request("redirect", Owner, Random1, NoURL, NoExpiry)}

NextRouter ==
    \/ \E t \in {1, 2} :
          \/ \E r \in RouterRequests : Arrive(t, r)
          \/ allowRequestLock(t)
          \/ allowRequestDecide(t)
          \/ ShortenURLHandler(t)
          \/ insertURL(t)
          \/ GetUserURLsHandler(t)
          \/ RedirectURL(t)
          \/ RedirectRespond(t)
    \/ \E k \in 1..MaxRedirects :
          \/ RecordClick(k)
          \/ IncrementClickCount(k)

SpecRouter == Init /\ [][NextRouter]_vars

----------------------------------------------------------------------------
(* C1 *)

\* the contexts that asked for custom code c while no link had it
Contenders(c) ==
    {t \in Threads : rq[t].route = "shorten" /\ rq[t].code = c /\ sv[t].wasFree}
Finished(c) == {t \in Contenders(c) : pc[t] = "idle"}
Winners(c) == {t \in Finished(c) : resp[t].status = 201}

\* C1: no two rows of urls have the same short_code; of the calls of
\* ShortenURL that ask for the same free, valid custom code at most one
\* succeeds, every other one fails with an error, and when all contexts
\* raced for it exactly one succeeded
C1_UniqueCode ==
    /\ \A i, j \in 1..Len(urls) : i # j => urls[i].short_code # urls[j].short_code
    /\ Cardinality(Winners(Dup)) <= 1
    /\ \A t \in Winners(Dup) : resp[t].body[1].short_code = Dup
    /\ \A t \in Finished(Dup) \ Winners(Dup) :
          /\ resp[t].status = 400
          /\ resp[t].message \in {"custom code already exists", "failed to save URL"}
    /\ Finished(Dup) # {} =>
          Cardinality({i \in 1..Len(urls) : urls[i].short_code = Dup}) = 1
    /\ Finished(Dup) = Threads => Cardinality(Winners(Dup)) = 1

\* three creators raced for the same code: one won, one lost at the
\* pre-check, one lost at the insert
C1_Witness ==
    /\ Finished(Dup) = Threads
    /\ \E t \in Threads : resp[t].message = "custom code already exists"
    /\ \E t \in Threads : resp[t].message = "failed to save URL"

----------------------------------------------------------------------------
(* C2 *)

\* the codes of the links whose expires_at is strictly before the clock
ExpiredCodes ==
    {urls[i].short_code : i \in {j \in 1..Len(urls) :
        urls[j].expires_at # NoExpiry /\ urls[j].expires_at < now}}

\* the step in which context t, serving GET /{code}, leaves GetOriginalURL
Resolves(t, code) ==
    /\ pc[t] = "handler"
    /\ rq[t].route = "redirect"
    /\ rq[t].code = code
    /\ pc'[t] # "handler"

\* C2: a link whose expires_at is strictly before the clock is not
\* resolvable, now and after every step: GetOriginalURL fails with "URL has
\* expired", and a GET /{code} resolved then is answered 404 and starts no
\* recording
C2_ExpiredNeverResolves ==
    [][(\A code \in ExpiredCodes :
          /\ GetOriginalURL(urls, now, code).err = "URL has expired"
          /\ code \in ExpiredCodes'
          /\ \A t \in Threads : Resolves(t, code) =>
                /\ resp'[t].status = 404
                /\ resp'[t].message = "URL has expired"
                /\ pc'[t] = "idle"
                /\ tasks' = tasks)
       /\ (\A later \in ExpiredCodes' :
              GetOriginalURL(urls', now', later).err = "URL has expired")]_vars

\* a link created with an expires_at already in the past was asked for and
\* answered 404
C2_Witness ==
    \E t \in Threads, i \in 1..Len(urls) :
        /\ rq[t].route = "redirect"
        /\ rq[t].code = urls[i].short_code
        /\ urls[i].expires_at # NoExpiry
        /\ urls[i].expires_at < urls[i].created_at
        /\ resp[t].status = 404
        /\ resp[t].message = "URL has expired"

----------------------------------------------------------------------------
(* C3 *)

\* C3: a link without expires_at resolves after every step, whatever the
\* step did, to the original_url it had before the step, which for a link
\* the step created is the original_url of the request that created it
C3_NoExpiryAlwaysResolves ==
    [][\A i \in 1..Len(urls') :
          urls'[i].expires_at = NoExpiry =>
             LET got == GetOriginalURL(urls', now', urls'[i].short_code)
             IN /\ got.err = ""
                /\ got.url[1].id = i
                /\ IF i <= Len(urls)
                   THEN got.url[1].original_url = urls[i].original_url
                   ELSE \E t \in Threads :
                           /\ pc[t] = "insert"
                           /\ pc'[t] = "idle"
                           /\ got.url[1].original_url = rq[t].url]_vars

\* a link without expires_at was resolved at the end of the run, after
\* another link was created and a click on it was recorded and counted
C3_Witness ==
    \E t \in Threads, i \in 1..Len(urls) :
        /\ urls[i].expires_at = NoExpiry
        /\ urls[i].click_count > 0
        /\ Len(urls) > 1
        /\ now = MaxClock
        /\ now > urls[i].created_at
        /\ rq[t].route = "redirect"
        /\ rq[t].code = urls[i].short_code
        /\ resp[t].status = 301
        /\ resp[t].location = urls[i].original_url

----------------------------------------------------------------------------
(* C4 *)

\* the step in which allowRequest decides the request of context t
Decides(t) == pc[t] = "decide" /\ pc'[t] # "decide"

\* C4: of the requests an identity sends within 60 s of the request that
\* created (or reset) its entry, at most 10 are admitted, and every one that
\* comes after the 10th admitted one is answered 429: of 15 such requests
\* at least 5
C4_TenPerWindow ==
    /\ [](\A ip \in IPs :
            /\ hist[ip].inWindow <= maxRequests
            /\ hist[ip].seen >= 15 => hist[ip].seen - hist[ip].inWindow >= 5)
    /\ [][\A t \in Threads :
            (/\ Decides(t)
             /\ hist[rq[t].ip].inWindow = maxRequests
             /\ lv[t].now - hist[rq[t].ip].opened <= timeWindow) =>
                /\ resp'[t].status = 429
                /\ pc'[t] = "idle"
                /\ visitors' = visitors]_vars

\* 15 requests inside one window: 10 admitted, and the last one answered 429
C4_Witness ==
    \E ip \in IPs, t \in Threads :
        /\ hist[ip].seen = 15
        /\ hist[ip].inWindow = 10
        /\ rq[t].ip = ip
        /\ resp[t].status = 429

----------------------------------------------------------------------------
(* C5 *)

\* C5: no identity has more than 10 requests admitted in any 60 seconds:
\* the admissions from 60 s before the latest one up to it are at most 10
C5_TenPerMinute ==
    \A ip \in IPs : Len(hist[ip].log) <= maxRequests

\* 10 admissions of one identity spread over exactly 60 s, in an entry that
\* was reset before
C5_Witness ==
    \E ip \in IPs :
        /\ Len(hist[ip].log) = maxRequests
        /\ hist[ip].log[1] + timeWindow = hist[ip].log[maxRequests]
        /\ hist[ip].opened > timeWindow

----------------------------------------------------------------------------
(* C6 *)

\* C6 as stated: a request is rejected only if 10 requests of its identity
\* were admitted in the 60 s before it
C6_RejectedOnlyOverLimit ==
    \A t \in Threads : resp[t].status = 429 => lv[t].recent >= maxRequests

----------------------------------------------------------------------------
(* C7 *)

----------------------------------------------------------------------------
(* C8 *)

\* C8: allowRequest runs under mutual exclusion, so the count of an entry is
\* the number of requests admitted since the entry was created or reset, and
\* never more than 10
C8_AtomicCheckAndCount ==
    /\ \A t, u \in Threads : (pc[t] = "decide" /\ pc[u] = "decide") => t = u
    /\ \A t \in Threads : pc[t] = "decide" <=> mu = t
    /\ \A ip \in IPs :
          visitors[ip] # Absent =>
             /\ visitors[ip].requests = hist[ip].admitted
             /\ hist[ip].admitted <= maxRequests

\* two requests of one identity in flight, 9 admitted so far: one holds the
\* lock and has read the count, the other waits for the lock
C8_Witness ==
    \E t, u \in Threads :
        /\ pc[t] = "decide"
        /\ pc[u] = "allowRequest"
        /\ rq[t].ip = rq[u].ip
        /\ lv[t].v.requests = maxRequests - 1
        /\ lv[t].now - lv[t].v.lastSeen <= timeWindow

----------------------------------------------------------------------------
(* C9 *)

\* C9: a request of the redirect route never enters allowRequest, is never
\* answered 429 and leaves the limiter as it is in every step it takes; the
\* handler of a route under /api/v1 starts only in the step in which
\* allowRequest admits the request
C9_RedirectExempt ==
    [][\A t \in Threads :
          /\ (rq'[t].route = "redirect" /\ <<pc[t], rq[t]>> # <<pc'[t], rq'[t]>>) =>
                /\ pc'[t] \notin {"allowRequest", "decide"}
                /\ resp'[t].status # 429
                /\ UNCHANGED <<mu, visitors, hist>>
          /\ (rq'[t].route \in ApiRoutes /\ pc'[t] = "handler" /\ pc[t] # "handler") =>
                /\ pc[t] = "decide"
                /\ allowRequest(lv[t].v, lv[t].now).allowed
          /\ (rq'[t].route \in ApiRoutes /\ resp'[t] # resp[t] /\ resp'[t].status \notin {0, 429}) =>
                pc[t] \in {"handler", "generate", "insert"}]_vars

\* a client at its limit: its API request was answered 429, then its
\* redirect was served
C9_Witness ==
    \E t \in Threads :
        /\ rq[t].route = "redirect"
        /\ resp[t].status = 301
        /\ visitors[rq[t].ip].requests = maxRequests
        /\ hist[rq[t].ip].seen > maxRequests

----------------------------------------------------------------------------
(* C10 *)

\* the step in which goroutine k makes one of its two writes
Writes(k) ==
    /\ tasks[k].pc \in {"RecordClick", "IncrementClickCount"}
    /\ tasks'[k].pc # tasks[k].pc

----------------------------------------------------------------------------
(* The click recorder: redirects of one link served by two contexts, the   *)
(* writes of their goroutines succeeding or failing                        *)

RecorderRequests ==
    {Request("shorten", Owner, Dup, UrlA, NoExpiry),
     Request("redirect", Owner, Dup, NoURL, NoExpiry)}

NextRecorder ==
    \/ \E t \in {1, 2} :
          \/ \E r \in RecorderRequests : Enter(t, r, MaxTasks)
          \/ ShortenURLHandler(t)
          \/ insertURL(t)
          \/ RedirectURL(t)
          \/ RedirectRespond(t)
    \/ \E k \in 1..MaxTasks :
          \/ RecordClick(k)
          \/ RecordClickFails(k)
          \/ IncrementClickCount(k)
          \/ IncrementClickCountFails(k)

SpecRecorder == Init /\ [][NextRecorder]_vars

----------------------------------------------------------------------------
(* Analytics read while clicks of two links are recorded *)

Other == <<"o","t","h","e","r","7">>
Visitor == "192.168.1.100"

AnalyticsRequests ==
    {Request("shorten", Owner, Dup, UrlA, 1),
     Request("shorten", Owner, Other, UrlB, NoExpiry),
     Request("redirect", Owner, Dup, NoURL, NoExpiry),
     Request("redirect", Visitor, Other, NoURL, NoExpiry),
     Request("analytics", Owner, Dup, NoURL, NoExpiry)}

NextAnalytics ==
    \/ Tick({2}, MaxClock)
    \/ \E r \in AnalyticsRequests : Enter(1, r, MaxTasks)
    \/ ShortenURLHandler(1)
    \/ insertURL(1)
    \/ RedirectURL(1)
    \/ RedirectRespond(1)
    \/ GetAnalyticsHandler(1)
    \/ GetTotalClicks(1)
    \/ GetUniqueVisitors(1)
    \/ GetClicksByCountry(1)
    \/ GetClicksByDay(1)
    \/ GetRecentClicks(1)
    \/ \E k \in 1..MaxTasks :
          \/ RecordClick(k)
          \/ IncrementClickCount(k)

SpecAnalytics == Init /\ [][NextAnalytics]_vars

----------------------------------------------------------------------------
(* C13 *)

\* the step in which context t, serving GET /{code}, leaves its handler's
\* first part
HandlesRedirect(t) ==
    /\ pc[t] = "handler"
    /\ rq[t].route = "redirect"
    /\ pc'[t] # pc[t]

\* C13: a GET /{code} whose code has no link or whose link has expired is
\* answered 404 and records nothing: no row is added to clicks, no
\* click_count changes and no recording goroutine is started; so every row
\* of clicks and every goroutine belongs to a link that existed and had not
\* expired when the click was made
C13_NothingRecordedOnFailure ==
    /\ [][\A t \in Threads :
             (HandlesRedirect(t) /\ (~shortCodeExists(rq[t].code) \/ rq[t].code \in ExpiredCodes)) =>
                 /\ resp'[t].status = 404
                 /\ pc'[t] = "idle"
                 /\ clicks' = clicks
                 /\ urls' = urls
                 /\ tasks' = tasks]_vars
    /\ [](\A k \in Started :
             \E i \in 1..Len(urls) :
                 /\ urls[i].short_code = tasks[k].click.url_short_code
                 /\ urls[i].expires_at # NoExpiry => tasks[k].click.clicked_at <= urls[i].expires_at)

\* a link that was clicked once expires; the next GET is answered 404 and
\* the click row and the click_count stay as they were
C13_Witness ==
    \E t \in Threads, i \in 1..Len(urls) :
        /\ rq[t].route = "redirect"
        /\ rq[t].code = urls[i].short_code
        /\ resp[t].status = 404
        /\ resp[t].message = "URL has expired"
        /\ urls[i].click_count = 1
        /\ Len(clicks) = 1
        /\ \A k \in Started : tasks[k].pc = "done"

----------------------------------------------------------------------------
(* C14 *)

\* the rows of clicks recorded for code
EventsOf(code) == {i \in 1..Len(clicks) : clicks[i].url_short_code = code}

\* the step in which context t answers its analytics request with 200
AnswersAnalytics(t) ==
    /\ rq[t].route = "analytics"
    /\ pc[t] = "getRecentClicks"
    /\ pc'[t] = "idle"
    /\ resp'[t].status = 200

\* C14: total_clicks is the number of rows of clicks with the code at the
\* moment its query runs and unique_visitors the number of distinct
\* ip_address values among them at the moment its query runs; both reach
\* the response as they were read, and every click recorded before
\* GetAnalytics was called is counted in both (nothing is cached); when no
\* click of the code is recorded during the call, the response carries
\* exactly the number of its clicks and of their distinct addresses
C14_CountsAreFresh ==
    [][\A t \in Threads :
          /\ (pc[t] = "getTotalClicks" /\ pc'[t] # pc[t]) =>
                sv'[t].analytics.total_clicks = Cardinality(EventsOf(rq[t].code))
          /\ (pc[t] = "getUniqueVisitors" /\ pc'[t] # pc[t]) =>
                sv'[t].analytics.unique_visitors =
                    Cardinality({clicks[i].ip_address : i \in EventsOf(rq[t].code)})
          /\ AnswersAnalytics(t) =>
                /\ resp'[t].body[1].total_clicks = sv[t].analytics.total_clicks
                /\ resp'[t].body[1].unique_visitors = sv[t].analytics.unique_visitors
                /\ resp'[t].body[1].total_clicks >= sv[t].atCall
                /\ resp'[t].body[1].total_clicks <= Cardinality(EventsOf(rq[t].code))
                /\ (sv[t].atCall > 0) => (resp'[t].body[1].unique_visitors >= 1)
                /\ (Cardinality(EventsOf(rq[t].code)) = sv[t].atCall) =>
                      /\ resp'[t].body[1].total_clicks = Cardinality(EventsOf(rq[t].code))
                      /\ resp'[t].body[1].unique_visitors =
                            Cardinality({clicks[i].ip_address : i \in EventsOf(rq[t].code)})]_vars

\* analytics answered for a link with two clicks of one visitor, the second
\* recorded after GetAnalytics was called
C14_Witness ==
    \E t \in Threads :
        /\ rq[t].route = "analytics"
        /\ resp[t].status = 200
        /\ resp[t].body[1].total_clicks = 2
        /\ resp[t].body[1].unique_visitors = 1
        /\ sv[t].atCall = 1

----------------------------------------------------------------------------
(* C15 *)

\* C15: GetAnalytics fails as not found exactly when table urls has no row
\* with the code: the handler answers 404 in that case and in no other, and
\* goes on to the counts for every link that exists, expired or not
C15_NotFoundIffNoLink ==
    [][\A t \in Threads :
          /\ (pc[t] = "handler" /\ rq[t].route = "analytics" /\ pc'[t] # pc[t]) =>
                /\ (resp'[t].status = 404) <=> ~shortCodeExists(rq[t].code)
                /\ (resp'[t].status = 404) =>
                      (resp'[t].message = "short code not found" /\ pc'[t] = "idle")
                /\ shortCodeExists(rq[t].code) => pc'[t] = "getTotalClicks"
          /\ (rq[t].route = "analytics" /\ resp'[t] # resp[t] /\ pc[t] # "idle" /\ pc[t] # "handler") =>
                /\ resp'[t].status = 200
                /\ shortCodeExists(rq[t].code)]_vars

\* analytics answered 200 for a link that has expired
C15_Witness ==
    \E t \in Threads :
        /\ rq[t].route = "analytics"
        /\ resp[t].status = 200
        /\ rq[t].code \in ExpiredCodes
        /\ resp[t].body[1].url[1].expires_at < now

----------------------------------------------------------------------------
(* C16 *)

\* C16: resolution never writes: the step in which RedirectURL calls
\* GetOriginalURL leaves every row of urls, click_count included, and every
\* row of clicks as they were, whether it returns the link, the not-found
\* error or the expired error
C16_ResolutionReadsOnly ==
    [][\A t \in Threads :
          HandlesRedirect(t) =>
              /\ urls' = urls
              /\ clicks' = clicks
              /\ resp'[t].status \in {0, 400, 404}
              /\ (resp'[t].status = 0) <=> (GetOriginalURL(urls, now, rq[t].code).err = "")]_vars

\* a link was resolved, its handler has not answered yet and its goroutine
\* has not run: the link's click_count is still 0 and clicks is empty
C16_Witness ==
    \E t \in Threads, k \in Started, i \in 1..Len(urls) :
        /\ pc[t] = "redirect"
        /\ tasks[k].owner = t
        /\ tasks[k].pc = "RecordClick"
        /\ urls[i].short_code = rq[t].code
        /\ urls[i].click_count = 0
        /\ sv[t].target = urls[i].original_url
        /\ clicks = << >>

----------------------------------------------------------------------------
(* C17 *)

\* the step in which goroutine k's IncrementClickCount succeeds
Increments(k) ==
    /\ tasks[k].pc = "IncrementClickCount"
    /\ tasks'[k].pc = "done"
    /\ tasks'[k].incremented

\* what one successful increment for code does to table urls
OneMore(code) ==
    /\ Len(urls') = Len(urls)
    /\ \A i \in 1..Len(urls) :
          /\ urls'[i].click_count =
                urls[i].click_count + (IF urls[i].short_code = code THEN 1 ELSE 0)
          /\ [urls'[i] EXCEPT !.click_count = 0] = [urls[i] EXCEPT !.click_count = 0]

\* C17: click_count is 0 in a new row, never decreases, and changes only in
\* a successful IncrementClickCount, which adds exactly 1 to the row of its
\* code and leaves every other row as it was
C17_ClickCountMonotonic ==
    [][/\ Len(urls') >= Len(urls)
       /\ \A i \in 1..Len(urls') :
             IF i > Len(urls) THEN urls'[i].click_count = 0
             ELSE urls'[i].click_count >= urls[i].click_count
       /\ \A k \in 1..MaxTasks :
             Increments(k) => OneMore(tasks[k].click.url_short_code)
       /\ (\E i \in 1..Len(urls) : urls'[i].click_count # urls[i].click_count) =>
             (\E k \in 1..MaxTasks : Increments(k))]_vars

\* two links, one counted once and the other never, after the goroutine of
\* a redirect of the first has finished
C17_Witness ==
    \E i, j \in 1..Len(urls), k \in Started :
        /\ tasks[k].pc = "done"
        /\ tasks[k].click.url_short_code = urls[i].short_code
        /\ urls[i].click_count = 1
        /\ urls[j].click_count = 0
        /\ i # j

----------------------------------------------------------------------------
(* C18 *)

\* the goroutines whose IncrementClickCount for code has succeeded
Incremented(code) ==
    {k \in Started : tasks[k].incremented /\ tasks[k].click.url_short_code = code}

\* C18: no increment is lost: under every interleaving of the goroutines
\* the click_count of a link is the number of successful IncrementClickCount
\* calls made for its code, so N concurrent increments that all succeed
\* raise it by exactly N
C18_NoLostIncrement ==
    \A i \in 1..Len(urls) :
        urls[i].click_count = Cardinality(Incremented(urls[i].short_code))

\* two goroutines started while click_count was 0 have both incremented it
C18_Witness ==
    \E i \in 1..Len(urls) :
        /\ urls[i].click_count = 2
        /\ \A k \in 1..2 :
              /\ tasks[k].pc = "done"
              /\ tasks[k].incremented
              /\ tasks[k].snapshot = 0
              /\ tasks[k].click.url_short_code = urls[i].short_code

----------------------------------------------------------------------------
(* C19 *)

\* the step in which context t, serving POST /api/v1/shorten with a custom
\* code, leaves the first part of its handler
HandlesCustom(t) ==
    /\ pc[t] = "handler"
    /\ rq[t].route = "shorten"
    /\ rq[t].code # << >>
    /\ HasHTTPPrefix(rq[t].url)
    /\ pc'[t] # pc[t]

\* C19: creating a link with a custom code that a link already has fails
\* with the error "custom code already exists" (status 400) and changes
\* nothing: table urls, and with it the destination, owner, expires_at and
\* click_count of the existing link, and table clicks stay as they were
C19_DuplicateChangesNothing ==
    /\ [][\A t \in Threads :
             (HandlesCustom(t) /\ shortCodeExists(rq[t].code)) =>
                 /\ resp'[t].status = 400
                 /\ resp'[t].error = "Failed to shorten URL"
                 /\ resp'[t].message = "custom code already exists"
                 /\ pc'[t] = "idle"
                 /\ urls' = urls
                 /\ clicks' = clicks]_vars
    /\ [](\A t \in Threads :
             (rq[t].route = "shorten" /\ rq[t].code # << >> /\ ~sv[t].wasFree) =>
                 resp[t].status \in {0, 400})

\* a second creation with the code of a link that was clicked once, asking
\* for another destination and another expiry, was refused; the link is as
\* it was
C19_Witness ==
    \E t \in Threads, i \in 1..Len(urls) :
        /\ rq[t].route = "shorten"
        /\ rq[t].code = urls[i].short_code
        /\ resp[t].status = 400
        /\ resp[t].message = "custom code already exists"
        /\ urls[i].original_url # rq[t].url
        /\ urls[i].expires_at # rq[t].expiresAt
        /\ urls[i].click_count = 1
        /\ Cardinality({j \in 1..Len(urls) : urls[j].short_code = rq[t].code}) = 1

----------------------------------------------------------------------------
(* C11 *)

\* the destinations stored for code
DestinationsOf(code) ==
    {urls[i].original_url : i \in {j \in 1..Len(urls) : urls[j].short_code = code}}

\* goroutine k has called each of its two writes at most once, and both
\* once when it is done
AtMostOnce(k) ==
    /\ tasks[k].recordTries <= 1
    /\ tasks[k].incrementTries <= 1
    /\ (tasks[k].pc = "done") => (tasks[k].recordTries = 1 /\ tasks[k].incrementTries = 1)

\* a handler past a successful resolution answers 301 to the destination
\* stored, and a write of a goroutine, failed or not, leaves every response
\* and every handler where it is
Swallowed ==
    /\ \A t \in Threads :
          (pc[t] = "redirect" /\ pc'[t] # "redirect") =>
              /\ resp'[t].status = 301
              /\ resp'[t].error = ""
              /\ DestinationsOf(rq[t].code) = {resp'[t].location}
    /\ (\E k \in 1..MaxTasks : Writes(k)) => (resp' = resp /\ pc' = pc)

\* C11: a failed append or a failed increment is never surfaced and never
\* retried: after a successful resolution the handler answers 301 to the
\* link's destination whatever the goroutine's writes did, no step of a
\* goroutine touches a response, and a goroutine calls RecordClick and
\* IncrementClickCount at most once each
C11_FailuresSwallowed ==
    /\ [][Swallowed]_vars
    /\ [](\A k \in 1..MaxTasks : AtMostOnce(k))

\* both writes of a goroutine failed and its request was answered 301
C11_Witness ==
    \E t \in Threads, k \in Started :
        /\ tasks[k].owner = t
        /\ tasks[k].pc = "done"
        /\ ~tasks[k].recorded
        /\ ~tasks[k].incremented
        /\ tasks[k].responded
        /\ resp[t].status = 301
        /\ resp[t].location = UrlA
        /\ clicks = << >>

----------------------------------------------------------------------------
(* The recording goroutines under fair scheduling, the store not failing   *)

FairRequests ==
    {Request("shorten", Owner, Dup, UrlA, NoExpiry),
     Request("redirect", Owner, Dup, NoURL, NoExpiry),
     Request("analytics", Owner, Dup, NoURL, NoExpiry)}

NextFair ==
    \/ \E r \in FairRequests : Enter(1, r, MaxTasks)
    \/ ShortenURLHandler(1)
    \/ insertURL(1)
    \/ RedirectURL(1)
    \/ RedirectRespond(1)
    \/ GetAnalyticsHandler(1)
    \/ GetTotalClicks(1)
    \/ GetUniqueVisitors(1)
    \/ GetClicksByCountry(1)
    \/ GetClicksByDay(1)
    \/ GetRecentClicks(1)
    \/ \E k \in 1..MaxTasks :
          \/ RecordClick(k)
          \/ IncrementClickCount(k)

\* the Go scheduler runs every runnable goroutine, and a db.Exec that does
\* not fail returns: a started goroutine makes each of its two calls
SpecFair ==
    /\ Init
    /\ [][NextFair]_vars
    /\ \A k \in 1..MaxTasks : WF_vars(RecordClick(k)) /\ WF_vars(IncrementClickCount(k))

----------------------------------------------------------------------------
(* C12 *)

\* the goroutines that have made their INSERT
Recorded == {k \in 1..MaxTasks : tasks[k].recorded}

\* C12: with a store that does not fail and goroutines scheduled fairly,
\* every redirect answered 301 is eventually accounted for: its goroutine
\* eventually has inserted its click, from then on table clicks holds a row
\* of the code, so that a GetAnalytics called after that returns
\* total_clicks >= 1; and the rows of clicks are at every moment exactly one
\* per goroutine that has made its INSERT
C12_EventuallyAccounted ==
    /\ \A k \in 1..MaxTasks :
          (tasks[k].pc = "RecordClick") ~>
              [](tasks[k].recorded /\ EventsOf(tasks[k].click.url_short_code) # {})
    /\ \A t \in {1} :
          (rq[t].route = "redirect" /\ resp[t].status = 301) ~> (EventsOf(Dup) # {})
    /\ [](Len(clicks) = Cardinality(Recorded))
    /\ [](\A t \in Threads :
             (rq[t].route = "analytics" /\ resp[t].status = 200 /\ sv[t].atCall >= 1)
                 => resp[t].body[1].total_clicks >= 1)

\* a redirect was answered 301, its goroutine has inserted the click, and an
\* analytics request made later returned total_clicks >= 1
C12_Witness ==
    \E k \in Started :
        /\ tasks[k].responded
        /\ tasks[k].recorded
        /\ rq[1].route = "analytics"
        /\ resp[1].status = 200
        /\ resp[1].body[1].total_clicks >= 1

----------------------------------------------------------------------------
(* Custom codes of every kind offered to ShortenURL *)

Repeat(c, n) == [i \in 1..n |-> c]

\* codes of 2, 3, 20 and 21 characters over the alphabet, codes with a
\* character outside it, and codes whose byte length differs from their
\* number of characters
CustomCodes ==
    {<<"a","b">>, <<"A","b","9">>, Dup, Repeat("z", 20), Repeat("z", 21),
     <<"a","-","b">>, <<"a","b","c"," ">>, <<"a","é">>, <<"é","é">>,
     Repeat("z", 19) \o <<"é">>}

ValidateRequests == {Request("shorten", Owner, code, UrlA, NoExpiry) : code \in CustomCodes}

NextValidate ==
    \E t \in {1, 2} :
       \/ \E r \in ValidateRequests : Admit(t, r)
       \/ ShortenURLHandler(t)
       \/ insertURL(t)

SpecValidate == Init /\ [][NextValidate]_vars

----------------------------------------------------------------------------
(* C20 *)

\* a code of 3 to 20 characters, all of them in the alphabet
WellFormed(code) ==
    /\ Len(code) >= 3
    /\ Len(code) <= 20
    /\ \A i \in 1..Len(code) : code[i] \in charset

\* C20: a custom code is accepted only if it has 3 to 20 characters, all in
\* the 62-character alphabet: a request with any other non-empty custom
\* code is answered 400 with one of the two validation errors and creates
\* no link, and the link created for an accepted custom code has that code,
\* unchanged, and is_custom = TRUE
C20_CustomCodeValidated ==
    /\ [][\A t \in Threads :
             /\ (HandlesCustom(t) /\ ~WellFormed(rq[t].code)) =>
                   /\ resp'[t].status = 400
                   /\ resp'[t].message \in
                         {"custom code must be between 3 and 20 characters",
                          "custom code can only contain alphanumeric characters"}
                   /\ pc'[t] = "idle"
                   /\ urls' = urls
             /\ (pc[t] = "insert" /\ rq[t].code # << >> /\ resp'[t].status = 201) =>
                   /\ WellFormed(rq[t].code)
                   /\ Len(urls') = Len(urls) + 1
                   /\ urls'[Len(urls')].short_code = rq[t].code
                   /\ urls'[Len(urls')].is_custom
                   /\ resp'[t].body[1].short_code = rq[t].code]_vars
    /\ [](Cardinality(charset) = 62)
    /\ [](\A i \in 1..Len(urls) : urls[i].is_custom /\ WellFormed(urls[i].short_code))

\* the codes of 3 and of 20 characters have their links, and the code of 21
\* characters was refused
C20_Witness ==
    \E t \in Threads :
        /\ rq[t].code = Repeat("z", 21)
        /\ resp[t].status = 400
        /\ resp[t].message = "custom code must be between 3 and 20 characters"
        /\ \E i, j \in 1..Len(urls) :
              /\ urls[i].short_code = <<"A","b","9">>
              /\ urls[j].short_code = Repeat("z", 20)
              /\ urls[i].is_custom
              /\ urls[j].is_custom

----------------------------------------------------------------------------
(* C21: the shape of a generated code *)

Generated(url) ==
    /\ Len(url.short_code) = 6
    /\ \A i \in 1..Len(url.short_code) : url.short_code[i] \in charset
    /\ url.is_custom = FALSE

StoresGenerated(t) ==
    (/\ pc[t] = "insert"
     /\ rq[t].code = << >>
     /\ pc'[t] = "idle"
     /\ resp'[t].status = 201)
    => (/\ Len(urls') = Len(urls) + 1
        /\ Generated(urls'[Len(urls')])
        /\ resp'[t].body = <<urls'[Len(urls')]>>)

\* C21: every code that ShortenURL produces for a request without a custom
\* code has exactly 6 characters, each of them one of the 62 characters
\* a-z, A-Z, 0-9, and the Link created with it has is_custom = FALSE
C21_GeneratedCodeShape ==
    /\ [](Cardinality(charset) = 62)
    /\ [][\A t \in Threads : StoresGenerated(t)]_vars

C21_Witness ==
    \E t \in Threads :
       /\ pc[t] = "idle"
       /\ rq[t].code = << >>
       /\ resp[t].status = 201
       /\ resp[t].body[1].short_code = Random2
       /\ \E i \in 1..Len(urls) : urls[i] = resp[t].body[1] /\ Generated(urls[i])

----------------------------------------------------------------------------
(* Creations without a custom code, two at a time, with two codes to draw *)

GenerateRequests ==
    {Request("shorten", Owner, << >>, url, NoExpiry) : url \in {UrlA, UrlB}}

NextGenerate ==
    \E t \in {1, 2} :
       \/ \E r \in GenerateRequests : Admit(t, r)
       \/ ShortenURLHandler(t)
       \/ generateUniqueShortCode(t, RandomCodes)
       \/ insertURL(t)

\* a call of generateRandomCode and a query of shortCodeExists that does not
\* fail return: a request inside the loop makes its next turn
SpecGenerate ==
    /\ Init
    /\ [][NextGenerate]_vars
    /\ \A t \in {1, 2} : WF_vars(generateUniqueShortCode(t, RandomCodes))

----------------------------------------------------------------------------
(* C22 *)

Exhausted == "failed to generate unique short code after 5 retries"

\* what one turn of the loop of thread t may do
Draws(t) ==
    pc[t] = "generate" =>
       \/ /\ pc'[t] = "insert"
          /\ ~shortCodeExists(sv'[t].shortCode)
          /\ sv'[t].i = sv[t].i
          /\ resp'[t] = resp[t]
       \/ /\ pc'[t] = "generate"
          /\ sv'[t].i = sv[t].i + 1
          /\ sv'[t].i < 5
          /\ resp'[t] = resp[t]
       \/ /\ pc'[t] = "idle"
          /\ sv'[t].i = 5
          /\ resp'[t].status = 400
          /\ resp'[t].message = Exhausted
       \/ /\ pc'[t] = "generate"
          /\ sv'[t] = sv[t]

\* C22: generating a code is a bounded retry. A creation draws at most 5
\* codes; it goes on to the insert with the first code drawn that did not
\* exist when it was checked; it fails with the generation-exhausted error
\* exactly when 5 codes were drawn and all of them existed; it always
\* leaves the loop; and the request that fails creates no Link
C22_BoundedRetry ==
    /\ [](\A t \in {1, 2} : pc[t] = "generate" => sv[t].i < 5)
    /\ [][\A t \in {1, 2} : Draws(t)]_vars
    /\ [](\A t \in {1, 2} : (pc[t] = "idle" /\ rq[t].route = "shorten")
             => (resp[t].message = Exhausted <=> sv[t].i = 5))
    /\ [][\A t \in {1, 2} : (pc[t] = "generate" /\ pc'[t] = "idle") => urls' = urls]_vars
    /\ \A t \in {1, 2} : (pc[t] = "generate") ~> (pc[t] # "generate")

\* a creation has failed after five draws that all existed, next to a
\* creation that found a free code on a later draw than its first
C22_Witness ==
    /\ pc[1] = "idle" /\ resp[1].message = Exhausted /\ sv[1].i = 5
    /\ Len(urls) = 2
    /\ pc[2] = "insert" /\ sv[2].i = 1

----------------------------------------------------------------------------
(* Two requests at a time that resolve a code which is live, expired or
   was never created *)

ResolveRequests ==
    {Request("shorten", Owner, Dup, UrlB, 1),
     Request("redirect", Owner, Dup, NoURL, NoExpiry),
     Request("redirect", Owner, Random1, NoURL, NoExpiry)}

NextResolve ==
    \/ Tick({1}, MaxClock)
    \/ \E t \in {1, 2} :
          \/ \E r \in ResolveRequests : Admit(t, r)
          \/ ShortenURLHandler(t)
          \/ insertURL(t)
          \/ RedirectURL(t)
          \/ RedirectRespond(t)
    \/ \E k \in 1..MaxRedirects :
          \/ RecordClick(k)
          \/ IncrementClickCount(k)

SpecResolve == Init /\ [][NextResolve]_vars

----------------------------------------------------------------------------
(* C23 *)

\* context t has answered a GET /{code} with 404
Refused(t) ==
    /\ pc[t] = "idle"
    /\ rq[t].route = "redirect"
    /\ resp[t].status = 404

\* C23: a GET /{code} for an expired Link and a GET /{code} for a code that
\* was never created are answered alike: any two 404 answers to GET /{code}
\* have the same status, the same error field and the same message field
C23_ExpiredLooksMissing ==
    \A t1, t2 \in {1, 2} :
       (Refused(t1) /\ Refused(t2)) =>
           /\ resp[t1].status = resp[t2].status
           /\ resp[t1].error = resp[t2].error
           /\ resp[t1].message = resp[t2].message

----------------------------------------------------------------------------
(* A store whose queries can fail *)

\* the text of an error of database/sql that is not sql.ErrNoRows and not a
\* violated constraint, and the text ShortenURL wraps around it
StorageError == "database is locked"
SaveFailed == "failed to save URL: database is locked"

\* URLHandler.ShortenURL when a statement of URLService.ShortenURL fails:
\* the COUNT of shortCodeExists, in validateCustomCode or in the loop of
\* generateUniqueShortCode, or the INSERT
ShortenURLStoreFails(t) ==
    /\ rq[t].route = "shorten"
    /\ \/ /\ pc[t] = "handler"
          /\ HasHTTPPrefix(rq[t].url)
          /\ rq[t].code # << >>
          /\ validateCustomCode(rq[t].code) \in {"", "custom code already exists"}
       \/ pc[t] \in {"generate", "insert"}
    /\ Answer(t, Response(400, NoURL, "Failed to shorten URL",
                          IF pc[t] = "insert" THEN SaveFailed ELSE StorageError, << >>))
    /\ UNCHANGED <<now, mu, visitors, rq, lv, hist, urls, clicks, sv, tasks>>

\* URLHandler.RedirectURL when the SELECT of GetOriginalURL fails
RedirectURLStoreFails(t) ==
    /\ pc[t] = "handler"
    /\ rq[t].route = "redirect"
    /\ rq[t].code # << >>
    /\ Answer(t, Response(404, NoURL, "URL not found", StorageError, << >>))
    /\ UNCHANGED <<now, mu, visitors, rq, lv, hist, urls, clicks, sv, tasks>>

\* URLHandler.GetAnalytics when one of the six queries of
\* AnalyticsService.GetAnalytics fails
GetAnalyticsStoreFails(t) ==
    /\ rq[t].route = "analytics"
    /\ rq[t].code # << >>
    /\ pc[t] \in {"handler", "getTotalClicks", "getUniqueVisitors",
                  "getClicksByCountry", "getClicksByDay", "getRecentClicks"}
    /\ Answer(t, Response(404, NoURL, "Analytics not found", StorageError, << >>))
    /\ UNCHANGED <<now, mu, visitors, rq, lv, hist, urls, clicks, sv, tasks>>

\* URLHandler.GetUserURLs when the query of URLService.GetUserURLs fails
GetUserURLsStoreFails(t) ==
    /\ pc[t] = "handler"
    /\ rq[t].route = "urls"
    /\ Answer(t, Response(500, NoURL, "Failed to retrieve URLs", StorageError, << >>))
    /\ UNCHANGED <<now, mu, visitors, rq, lv, hist, urls, clicks, sv, tasks>>

FaultyRequests ==
    {Request("shorten", Owner, Dup, UrlA, NoExpiry),
     Request("shorten", Owner, << >>, UrlB, NoExpiry),
     Request("redirect", Owner, Dup, NoURL, NoExpiry),
     Request("analytics", Owner, Dup, NoURL, NoExpiry),
     Request("urls", Owner, << >>, NoURL, NoExpiry)}

NextFaulty ==
    \/ \E r \in FaultyRequests : Admit(1, r)
    \/ ShortenURLHandler(1)
    \/ generateUniqueShortCode(1, {Random1})
    \/ insertURL(1)
    \/ ShortenURLStoreFails(1)
    \/ RedirectURL(1)
    \/ RedirectRespond(1)
    \/ RedirectURLStoreFails(1)
    \/ GetAnalyticsHandler(1)
    \/ GetTotalClicks(1)
    \/ GetUniqueVisitors(1)
    \/ GetClicksByCountry(1)
    \/ GetClicksByDay(1)
    \/ GetRecentClicks(1)
    \/ GetAnalyticsStoreFails(1)
    \/ GetUserURLsHandler(1)
    \/ GetUserURLsStoreFails(1)
    \/ \E k \in 1..MaxRedirects :
          \/ RecordClick(k)
          \/ IncrementClickCount(k)

SpecFaulty == Init /\ [][NextFaulty]_vars

----------------------------------------------------------------------------
(* C24 *)

\* context t has answered, and what it answered was a failure of the store
StorageFailure(t) ==
    /\ pc[t] = "idle"
    /\ resp[t].message \in {StorageError, SaveFailed}

\* C24: a failure of the store is answered 500, never 400 or 404, on every
\* route; 400 is kept for validation errors and conflicts, 404 for a Link
\* that is missing or expired
C24_StorageErrorsAre500 ==
    \A t \in Threads : StorageFailure(t) => resp[t].status = 500

----------------------------------------------------------------------------
(* C25 *)

\* row new is row old but for its click_count
SameLink(old, new) == new = [old EXCEPT !.click_count = new.click_count]

\* C25: apart from click_count the store only grows. Every step keeps every
\* row of urls in its place with its id, short_code, original_url,
\* created_at, expires_at, user_ip and is_custom, and keeps every row of
\* clicks in its place unchanged; rows are only ever added
C25_AppendOnly ==
    [][/\ Len(urls') >= Len(urls)
       /\ \A i \in 1..Len(urls) : SameLink(urls[i], urls'[i])
       /\ Len(clicks') >= Len(clicks)
       /\ \A i \in 1..Len(clicks) : clicks'[i] = clicks[i]]_vars

\* two links and a click are stored, the link that was clicked has counted,
\* and the other link has expired and was asked for after that
C25_Witness ==
    /\ Len(urls) = 2
    /\ Len(clicks) = 1
    /\ \E i \in 1..Len(urls) : urls[i].click_count > 0
    /\ \E i \in 1..Len(urls) : urls[i].short_code \in ExpiredCodes
    /\ \E t \in Threads : Refused(t) /\ resp[t].message = "URL has expired"

----------------------------------------------------------------------------
(* Two owners who create links at different times and list them *)

OwnersRequests ==
    {Request("shorten", Owner, Dup, UrlA, NoExpiry),
     Request("shorten", Owner, << >>, UrlB, NoExpiry),
     Request("shorten", Visitor, Other, UrlB, NoExpiry),
     Request("urls", Owner, << >>, NoURL, NoExpiry),
     Request("urls", Visitor, << >>, NoURL, NoExpiry)}

NextOwners ==
    \/ Tick({1}, MaxClock)
    \/ \E t \in {1, 2} :
          \/ \E r \in OwnersRequests : Admit(t, r)
          \/ ShortenURLHandler(t)
          \/ generateUniqueShortCode(t, {Random1})
          \/ insertURL(t)
          \/ GetUserURLsHandler(t)

SpecOwners == Init /\ [][NextOwners]_vars

----------------------------------------------------------------------------
(* C26 *)

\* the rows of urls that identity ip owns
OwnedBy(ip) == {i \in 1..Len(urls) : urls[i].user_ip = ip}

\* list is the rows that ip owns, each once, the newest first
ListsOwned(list, ip) ==
    /\ Len(list) = Cardinality(OwnedBy(ip))
    /\ {list[j] : j \in 1..Len(list)} = {urls[i] : i \in OwnedBy(ip)}
    /\ \A j, k \in 1..Len(list) : j < k => list[j].created_at >= list[k].created_at

\* C26: GET /api/v1/urls answers with exactly the Links whose owner is the
\* identity of the request, each of them once and none of another owner, in
\* descending order of created_at; an identity that has created n Links
\* gets n of them
C26_OwnLinksNewestFirst ==
    [][\A t \in Threads :
          (/\ pc[t] = "handler"
           /\ rq[t].route = "urls"
           /\ pc'[t] = "idle")
          => (/\ resp'[t].status = 200
              /\ ListsOwned(resp'[t].body, rq[t].ip))]_vars

\* an owner of two links created at different times gets the two, the newer
\* first, while the store holds a link of another owner
C26_Witness ==
    \E t \in Threads :
       /\ pc[t] = "idle"
       /\ rq[t].route = "urls"
       /\ Len(urls) = 3
       /\ Len(resp[t].body) = 2
       /\ resp[t].body[1].created_at > resp[t].body[2].created_at
       /\ resp[t].body[1].id < resp[t].body[2].id

----------------------------------------------------------------------------
(* Analytics of a link whose event log holds clicks of many countries: the
   server starts on a database that AnalyticsService.RecordClick has filled *)

MaxCountries == 11

CountryNames ==
    <<"Argentina", "Brazil", "Canada", "Denmark", "Egypt", "France",
      "Germany", "Hungary", "India", "Japan", "Kenya", "Latvia">>

\* the row of clicks that RecordClick writes for a click of Dup from country
ClickFrom(country, at) ==
    [url_short_code |-> Dup, ip_address |-> "127.0.0.1", country |-> country,
     city |-> "", clicked_at |-> at]

\* one click from each of the first n countries, then extra clicks from the
\* first country, then blank clicks whose Country was left empty, one click
\* a second
EventLog(n, extra, blank) ==
    [i \in 1..n |-> ClickFrom(CountryNames[i], i)]
      \o [i \in 1..extra |-> ClickFrom(CountryNames[1], n + i)]
      \o [i \in 1..blank |-> ClickFrom("", n + extra + i)]

InitCountry ==
    /\ \E n \in 0..Min(MaxCountries, Len(CountryNames)), extra \in 0..2, blank \in 0..1 :
          clicks = EventLog(n, extra, blank)
    /\ now = Len(clicks)
    /\ mu = 0
    /\ visitors = [ip \in IPs |-> Absent]
    /\ pc = [t \in Threads |-> "idle"]
    /\ rq = [t \in Threads |-> NoRequest]
    /\ lv = [t \in Threads |-> NoLocals]
    /\ resp = [t \in Threads |-> NoResponse]
    /\ hist = [ip \in IPs |-> NoHistory]
    /\ urls = <<[id |-> 1, short_code |-> Dup, original_url |-> UrlA, created_at |-> 0,
                 expires_at |-> NoExpiry, click_count |-> 0, user_ip |-> "127.0.0.1",
                 is_custom |-> TRUE]>>
    /\ sv = [t \in Threads |-> NoService]
    /\ tasks = [k \in 1..MaxTasks |-> NoTask]

NextCountry ==
    \E t \in {1, 2} :
       \/ Admit(t, Request("analytics", Owner, Dup, NoURL, NoExpiry))
       \/ GetAnalyticsHandler(t)
       \/ GetTotalClicks(t)
       \/ GetUniqueVisitors(t)
       \/ GetClicksByCountry(t)
       \/ GetClicksByDay(t)
       \/ GetRecentClicks(t)

SpecCountry == InitCountry /\ [][NextCountry]_vars

----------------------------------------------------------------------------
(* C27 *)

\* the clicks of code from country
CountryCount(code, country) ==
    Cardinality({i \in 1..Len(clicks) :
                    clicks[i].url_short_code = code /\ clicks[i].country = country})

\* the countries, other than the empty one, with a click of code
CountriesOf(code) ==
    {clicks[i].country : i \in {j \in 1..Len(clicks) :
        clicks[j].url_short_code = code /\ clicks[j].country # ""}}

\* m maps at most 10 countries of code, none of them empty, each to its
\* exact count, and no country left out has more clicks than one kept
ExactTopTen(m, code) ==
    /\ DOMAIN m \subseteq CountriesOf(code)
    /\ \A c \in DOMAIN m : m[c] = CountryCount(code, c)
    /\ Cardinality(DOMAIN m) = Min(10, Cardinality(CountriesOf(code)))
    /\ \A c \in DOMAIN m, d \in CountriesOf(code) \ DOMAIN m :
          CountryCount(code, c) >= CountryCount(code, d)

\* context t has answered an analytics request with 200
AnsweredAnalytics(t) ==
    /\ pc[t] = "idle"
    /\ rq[t].route = "analytics"
    /\ resp[t].status = 200

\* every analytics answer carries exact counts of at most 10 countries, the
\* ones with the highest counts
TopTenExact ==
    \A t \in Threads :
       AnsweredAnalytics(t) => ExactTopTen(resp[t].body[1].clicks_by_country, rq[t].code)

\* two analytics answers for one code, computed from one event log, carry
\* the same countries
TopTenRepeatable ==
    \A t1, t2 \in Threads :
       (AnsweredAnalytics(t1) /\ AnsweredAnalytics(t2) /\ rq[t1].code = rq[t2].code)
          => resp[t1].body[1].clicks_by_country = resp[t2].body[1].clicks_by_country

\* C27: clicks_by_country maps each country kept to the exact number of its
\* events, leaves out events with an empty country, holds at most 10
\* countries, those with the highest counts, and breaks ties
\* deterministically: the same event log always yields the same entries,
\* also when more than 10 countries tie at the cut-off
C27_TopTenDeterministic == TopTenExact /\ TopTenRepeatable

----------------------------------------------------------------------------
(* The identity of a request, as the limiter and as the handlers derive it *)

\* strings.Index(s, c) and strings.LastIndex(s, c), counted from 1; 0 when
\* c does not occur
Index(s, c) ==
    IF \E i \in 1..Len(s) : s[i] = c
    THEN CHOOSE i \in 1..Len(s) : s[i] = c /\ \A j \in 1..(i - 1) : s[j] # c
    ELSE 0

LastIndex(s, c) ==
    IF \E i \in 1..Len(s) : s[i] = c
    THEN CHOOSE i \in 1..Len(s) : s[i] = c /\ \A j \in (i + 1)..Len(s) : s[j] # c
    ELSE 0

\* strings.Split(s, c)[0]: s up to its first c, all of s when it has none
SplitFirst(s, c) == IF Index(s, c) = 0 THEN s ELSE SubSeq(s, 1, Index(s, c) - 1)

\* strings.TrimSpace, for the space character
RECURSIVE TrimSpace(_)
TrimSpace(s) ==
    IF s = << >> THEN s
    ELSE IF Head(s) = " " THEN TrimSpace(Tail(s))
    ELSE IF s[Len(s)] = " " THEN TrimSpace(SubSeq(s, 1, Len(s) - 1))
    ELSE s

\* net.JoinHostPort: the RemoteAddr net/http gives a request of a peer
JoinHostPort(host, port) ==
    IF Index(host, ":") # 0
    THEN <<"[">> \o host \o <<"]", ":">> \o port
    ELSE host \o <<":">> \o port

\* getClientIP of the rate-limit middleware
getClientIP(r) ==
    IF r.xff # << >> THEN TrimSpace(SplitFirst(r.xff, ","))
    ELSE IF r.xri # << >> THEN r.xri
    ELSE IF Index(r.remoteAddr, ":") # 0 THEN SplitFirst(r.remoteAddr, ":")
    ELSE r.remoteAddr

\* URLHandler.getClientIP
URLHandler_getClientIP(r) ==
    LET ip == r.remoteAddr
        endBracket == Index(ip, "]") - 1
        lastColon == LastIndex(ip, ":") - 1
    IN IF r.xff # << >> THEN TrimSpace(SplitFirst(r.xff, ","))
       ELSE IF r.xri # << >> THEN r.xri
       ELSE IF ip # << >> /\ Head(ip) = "[" /\ endBracket > 0 THEN SubSeq(ip, 2, endBracket)
       ELSE IF Index(ip, ":") # 0 THEN SubSeq(ip, 1, lastColon)
       ELSE ip

\* addresses and header values
V4 == <<"1", "0", ".", "0", ".", "0", ".", "2">>
V4b == <<"1", "0", ".", "0", ".", "0", ".", "9">>
V6 == <<":", ":", "1">>
V6b == <<"f", "e", "8", "0", ":", ":", "2">>
Port == <<"8", "0", "8", "0">>
Forwarded == V4b \o <<",", " ">> \o V4
ForwardedSpaced == <<" ">> \o V6b \o <<" ", ",">> \o V4

\* a GET /api/v1/urls of the peer host:port with its two headers; peer, the
\* host the connection came from, is not read by the program
HTTPRequest(host, port, xff, xri) ==
    [route |-> "urls", ip |-> "", code |-> << >>, url |-> NoURL, expiresAt |-> NoExpiry,
     xff |-> xff, xri |-> xri, remoteAddr |-> JoinHostPort(host, port), peer |-> host]

HTTPRequests ==
    {HTTPRequest(host, Port, xff, xri) :
        host \in {V4, V6, V6b},
        xff \in {<< >>, Forwarded, ForwardedSpaced},
        xri \in {<< >>, V4b}}

\* the request reaches the router
Receive(t, r) ==
    /\ pc[t] = "idle"
    /\ rq' = [rq EXCEPT ![t] = r]
    /\ resp' = [resp EXCEPT ![t] = NoResponse]
    /\ lv' = [lv EXCEPT ![t] = NoLocals]
    /\ sv' = [sv EXCEPT ![t] = NoService]
    /\ pc' = [pc EXCEPT ![t] = "middleware"]
    /\ UNCHANGED <<now, mu, visitors, hist, urls, clicks, tasks>>

\* RateLimitMiddleware: ip := getClientIP(r), the key of its allowRequest
RateLimitMiddlewareIdentity(t) ==
    /\ pc[t] = "middleware"
    /\ lv' = [lv EXCEPT ![t].ip = getClientIP(rq[t])]
    /\ pc' = [pc EXCEPT ![t] = "handler"]
    /\ UNCHANGED <<now, mu, visitors, rq, resp, hist, urls, clicks, sv, tasks>>

\* URLHandler.GetUserURLs: clientIP := h.getClientIP(r), the owner it asks
\* URLService.GetUserURLs for; no link of the store has such an owner
GetUserURLsIdentity(t) ==
    /\ pc[t] = "handler"
    /\ rq[t].route = "urls"
    /\ sv' = [sv EXCEPT ![t].clientIP = URLHandler_getClientIP(rq[t])]
    /\ Answer(t, Response(200, NoURL, "", "", << >>))
    /\ UNCHANGED <<now, mu, visitors, rq, lv, hist, urls, clicks, tasks>>

NextIdentity ==
    \E t \in {1, 2} :
       \/ \E r \in HTTPRequests : Receive(t, r)
       \/ RateLimitMiddlewareIdentity(t)
       \/ GetUserURLsIdentity(t)

SpecIdentity == Init /\ [][NextIdentity]_vars

----------------------------------------------------------------------------
(* C28 *)

\* the first entry of X-Forwarded-For if the header is there, else
\* X-Real-IP if that is there, else the host of the peer
ClientIdentity(r) ==
    IF r.xff # << >> THEN TrimSpace(SplitFirst(r.xff, ","))
    ELSE IF r.xri # << >> THEN r.xri
    ELSE r.peer

\* the handler of every request answered has derived that identity
HandlerIdentity ==
    \A t \in {1, 2} :
       (pc[t] = "idle" /\ resp[t].status = 200) => sv[t].clientIP = ClientIdentity(rq[t])

\* the limiter has derived that identity for every request it passed on
LimiterIdentity ==
    \A t \in {1, 2} :
       (pc[t] = "handler" \/ (pc[t] = "idle" /\ resp[t].status = 200))
          => lv[t].ip = ClientIdentity(rq[t])

\* C28: the identity of a request is the first entry of X-Forwarded-For if
\* that header is present, else X-Real-IP if present, else the peer address
\* without its port, also for a bracketed IPv6 peer; and the limiter and the
\* handler derive the same identity for the same request
C28_OneIdentity ==
    /\ HandlerIdentity
    /\ LimiterIdentity
    /\ \A t \in {1, 2} :
          (pc[t] = "idle" /\ resp[t].status = 200) => lv[t].ip = sv[t].clientIP

----------------------------------------------------------------------------
(* C29 *)

\* context t admits a request that found the entry of its identity no more
\* than timeWindow old
AdmitsInside(t) ==
    /\ Decides(t)
    /\ lv[t].v # Absent
    /\ lv[t].now - lv[t].v.lastSeen <= timeWindow
    /\ pc'[t] = "handler"

\* C29: the window is fixed. A request admitted inside the window adds one
\* to the count of the entry and leaves its window start, the time field of
\* the entry, as it was; the window start of an entry changes only when the
\* entry is reset, which happens more than 60 s after that window start
C29_FixedWindow ==
    [][/\ \A t \in Threads :
             AdmitsInside(t) =>
                /\ visitors'[rq[t].ip].requests = lv[t].v.requests + 1
                /\ visitors'[rq[t].ip].lastSeen = lv[t].v.lastSeen
       /\ \A ip \in IPs :
             (/\ visitors[ip] # Absent
              /\ visitors'[ip] # Absent
              /\ visitors'[ip].lastSeen # visitors[ip].lastSeen)
             => (/\ visitors'[ip].requests = 1
                 /\ visitors'[ip].lastSeen - visitors[ip].lastSeen > timeWindow)]_vars

----------------------------------------------------------------------------
(* C30 *)

\* no entry of the map is more than 120 s older than time n
NoneOlder(vs, n) == \A ip \in IPs : vs[ip] # Absent => n - vs[ip].lastSeen <= 120

\* C30: after every admission check, made at the time now that the check
\* read, the map holds no entry whose time field is more than 120 s before
\* now: so after the cleanup at the start of the check and after its
\* verdict, whatever the verdict
C30_CleanupBound ==
    [][\A t \in Threads :
          /\ (pc[t] = "allowRequest" /\ pc'[t] = "decide") => NoneOlder(visitors', lv'[t].now)
          /\ Decides(t) => NoneOlder(visitors', lv[t].now)]_vars

\* the entry an identity got at time 0 is gone after a check of the other
\* identity 122 s later
C30_Witness ==
    \E a, b \in IPs :
       /\ hist[a].opened = 0
       /\ visitors[a] = Absent
       /\ visitors[b] # Absent
       /\ visitors[b].lastSeen = 122

----------------------------------------------------------------------------
(* C31 *)

\* the goroutines that have made their UPDATE
IncrementedTasks == {k \in 1..MaxTasks : tasks[k].incremented}

\* the click_count of code, 0 when no link has the code
ClickCountOf(code) ==
    IF \E i \in 1..Len(urls) : urls[i].short_code = code
    THEN (CHOOSE u \in {urls[i] : i \in 1..Len(urls)} : u.short_code = code).click_count
    ELSE 0

\* what a step of goroutine k leaves behind
Independent(k) ==
    /\ (tasks[k].pc = "RecordClick" /\ tasks'[k].pc # "RecordClick")
          => tasks'[k].pc = "IncrementClickCount"
    /\ (tasks[k].pc = "IncrementClickCount" /\ tasks'[k].pc # "IncrementClickCount")
          => (/\ clicks' = clicks
              /\ tasks'[k].pc = "done"
              /\ tasks'[k].recorded = tasks[k].recorded)

\* C31: the two sub-steps of the background task are independent. Whether
\* the append succeeded or failed the goroutine goes on to attempt the
\* increment; the increment, failed or not, leaves the event log as it was;
\* so click_count counts the increments that succeeded and the events the
\* appends that succeeded, and the two can differ in either direction
C31_SubStepsIndependent ==
    /\ [][\A k \in 1..MaxTasks : Independent(k)]_vars
    /\ [](\A k \in 1..MaxTasks : tasks[k].pc = "done" => tasks[k].incrementTries = 1)
    /\ [](Len(clicks) = Cardinality(Recorded))
    /\ [](ClickCountOf(Dup) = Cardinality(IncrementedTasks))

\* one goroutine appended its event and failed to increment, the other
\* failed to append and incremented
C31_Witness ==
    \E j, k \in 1..MaxTasks :
       /\ tasks[j].pc = "done" /\ tasks[j].recorded /\ ~tasks[j].incremented
       /\ tasks[k].pc = "done" /\ ~tasks[k].recorded /\ tasks[k].incremented
       /\ Len(clicks) = 1
       /\ ClickCountOf(Dup) = 1

----------------------------------------------------------------------------
(* Two creators at a time who ask for the same custom code, or draw the
   same code, for different destinations *)

NextRace ==
    \E t \in {1, 2} :
       \/ \E r \in ShortenRequests : Admit(t, r)
       \/ ShortenURLHandler(t)
       \/ generateUniqueShortCode(t, {Random1})
       \/ insertURL(t)

SpecRace == Init /\ [][NextRace]_vars

----------------------------------------------------------------------------
(* C32 *)

\* context t makes its INSERT with a code that a link has by now
InsertsDuplicate(t) ==
    /\ pc[t] = "insert"
    /\ pc'[t] # "insert"
    /\ sv[t].wasFree \/ rq[t].code = << >>
    /\ shortCodeExists(sv[t].shortCode)

\* C32: the availability check reserves nothing and a creation makes one
\* INSERT. When the code passed the check and another creator has inserted
\* it before this creator's INSERT, the INSERT is rejected, ShortenURL fails
\* with an error and is over, without another code being tried, for a
\* custom code and for a generated one, and table urls, the other creator's
\* link in it, stays as it was
C32_NoRetryAfterDuplicate ==
    [][\A t \in Threads :
          InsertsDuplicate(t) =>
             /\ resp'[t].status = 400
             /\ resp'[t].message = "failed to save URL"
             /\ pc'[t] = "idle"
             /\ urls' = urls]_vars

\* two creators drew the same code at their first draw, both found it free,
\* one inserted it and the other lost at the INSERT to that link, which has
\* another destination
C32_Witness ==
    \E t, u \in Threads :
       /\ pc[u] = "idle" /\ rq[u].code = << >> /\ resp[u].message = "failed to save URL"
       /\ sv[u].i = 0
       /\ pc[t] = "idle" /\ rq[t].code = << >> /\ resp[t].status = 201
       /\ resp[t].body[1].short_code = sv[u].shortCode
       /\ resp[t].body[1].original_url # rq[u].url
       /\ \E i \in 1..Len(urls) : urls[i] = resp[t].body[1]

----------------------------------------------------------------------------
(* C33 *)

\* the rows of urls that have the code
LinksOf(code) == {urls[i] : i \in {j \in 1..Len(urls) : urls[j].short_code = code}}

\* the decision table, for the answer got of a resolution of code
Decision(got, code) ==
    /\ got.err = "short code not found" <=> LinksOf(code) = {}
    /\ got.err = "URL has expired" <=>
          \E u \in LinksOf(code) : u.expires_at # NoExpiry /\ u.expires_at < now
    /\ got.err \in {"", "short code not found", "URL has expired"}
    /\ got.err = "" => (got.url # << >> /\ got.url[1] \in LinksOf(code))

\* C33: resolving a code follows one decision table. It fails with the
\* not-found error iff no Link has the code, with the expired error iff the
\* Link exists and its expires_at is set and strictly before now, and
\* otherwise returns the Link, also when expires_at equals now or lies in
\* the future; GET /{code} answers accordingly
C33_DecisionTable ==
    /\ [](\A code \in {Dup, Random1} : Decision(GetOriginalURL(urls, now, code), code))
    /\ [][\A t \in Threads, code \in {Dup, Random1} :
             Resolves(t, code) =>
                IF LinksOf(code) = {}
                THEN resp'[t].status = 404 /\ resp'[t].message = "short code not found"
                ELSE IF code \in ExpiredCodes
                THEN resp'[t].status = 404 /\ resp'[t].message = "URL has expired"
                ELSE /\ pc'[t] = "redirect"
                     /\ \E u \in LinksOf(code) : sv'[t].target = u.original_url]_vars

\* a link was resolved at the very instant of its expires_at, and the
\* redirect to its destination is about to be sent
C33_Witness ==
    \E t \in Threads, u \in LinksOf(Dup) :
       /\ pc[t] = "redirect"
       /\ rq[t].code = Dup
       /\ u.expires_at = now
       /\ sv[t].target = u.original_url
       /\ \E k \in 1..MaxTasks : tasks[k].click.clicked_at = u.expires_at

----------------------------------------------------------------------------
(* C34 *)

\* context t rejects its request
Rejects(t) == Decides(t) /\ pc'[t] = "idle"

\* C34: a rejected request leaves the entry of its identity as it was when
\* the request arrived: the entry that the check holds under the lock is
\* the one in the map, the cleanup of the check has not touched it, and the
\* verdict writes nothing, so count and time field keep their values and
\* the identity is admitted again more than 60 s after that time field,
\* however many requests it sent while limited
C34_RejectionChangesNothing ==
    /\ [](\A t \in Threads : pc[t] = "decide" => lv[t].v = visitors[rq[t].ip])
    /\ [][\A t \in Threads :
             /\ (pc[t] = "allowRequest" /\ pc'[t] = "decide") =>
                   visitors'[rq[t].ip] \in {visitors[rq[t].ip], Absent}
             /\ Rejects(t) =>
                   /\ resp'[t].status = 429
                   /\ lv[t].v # Absent
                   /\ visitors'[rq[t].ip] = visitors[rq[t].ip]]_vars

\* an identity at its limit was rejected 60 s after its entry's time, which
\* is still the time of its last admission
C34_Witness ==
    \E t \in Threads :
       /\ pc[t] = "idle"
       /\ resp[t].status = 429
       /\ lv[t].now = 60
       /\ visitors[rq[t].ip] = visitor(0, maxRequests)

----------------------------------------------------------------------------
(* C35 *)

\* the entry of ip, and the entry it has in the limiter without cleanup,
\* are the same, or the first is gone and the second is older than 60 s
SameOrStale(ip, n) ==
    \/ visitors[ip] = hist[ip].shadow
    \/ /\ visitors[ip] = Absent
       /\ hist[ip].shadow # Absent
       /\ n - hist[ip].shadow.lastSeen > timeWindow

\* C35: cleanup cannot be observed. Every request gets from the limiter
\* the verdict it gets from a limiter without cleanup that has decided the
\* same requests at the same times, and gives the entry of its identity the
\* same value in both; an entry that cleanup has removed is, in the limiter
\* without cleanup, an entry that the next request of the identity resets
C35_CleanupTransparent ==
    /\ [][\A t \in Threads :
             Decides(t) =>
                /\ (pc'[t] = "handler") =
                      allowRequest(hist[rq[t].ip].shadow, lv[t].now).allowed
                /\ visitors'[rq[t].ip] = hist'[rq[t].ip].shadow]_vars
    /\ [](\A ip \in IPs : SameOrStale(ip, now))

\* an identity whose entry cleanup removed comes back: it is admitted with a
\* count of 1, as it is by the limiter that kept the old entry
C35_Witness ==
    \E t \in Threads, ip \in IPs :
       /\ pc[t] = "decide"
       /\ rq[t].ip = ip
       /\ visitors[ip] = Absent
       /\ hist[ip].shadow # Absent
       /\ hist[ip].shadow.requests > 1

----------------------------------------------------------------------------
(* C36 *)

\* C36: in every reachable state of the limiter, whatever the interleaving
\* of the requests, every entry of the map has a count of at least 1 and at
\* most 10 and a time field that is not later than the current time
C36_EntryBounds ==
    \A ip \in IPs :
       visitors[ip] # Absent =>
          /\ 1 <= visitors[ip].requests
          /\ visitors[ip].requests <= 10
          /\ visitors[ip].lastSeen <= now

\* an entry at its limit, last written at an earlier time than now, while a
\* request of the identity holds the lock and another waits for it
C36_Witness ==
    /\ visitors[Owner] # Absent
    /\ visitors[Owner].requests = 10
    /\ 0 < visitors[Owner].lastSeen
    /\ visitors[Owner].lastSeen < now
    /\ \E t, u \in Threads : pc[t] = "decide" /\ pc[u] = "allowRequest"

----------------------------------------------------------------------------
(* C37 *)

\* the successful resolutions of code by GET /{code}: each has started one
\* goroutine
Resolutions(code) ==
    {k \in 1..MaxTasks : tasks[k].pc # "none" /\ tasks[k].click.url_short_code = code}

\* C37: no click is counted twice. With events and increments coming from
\* the redirect path only, at every moment the click_count of a code and
\* the number of rows of clicks with the code are each at most the number
\* of successful resolutions of the code by redirect requests
C37_NoDoubleCount ==
    \A code \in {Dup, Random1} :
       /\ ClickCountOf(code) <= Cardinality(Resolutions(code))
       /\ Cardinality(EventsOf(code)) <= Cardinality(Resolutions(code))

\* two resolutions, one of them fully accounted for and the other with its
\* event appended and its increment failed
C37_Witness ==
    /\ Cardinality(Resolutions(Dup)) = 2
    /\ Cardinality(EventsOf(Dup)) = 2
    /\ ClickCountOf(Dup) = 1
    /\ \A k \in 1..MaxTasks : tasks[k].pc = "done"

----------------------------------------------------------------------------
(* C38 *)

\* the redirects of code that were answered 301
Redirected(code) ==
    {k \in 1..MaxTasks : tasks[k].responded /\ tasks[k].click.url_short_code = code}

\* no redirect is being served and every goroutine started has completed
Quiescent ==
    /\ \A t \in Threads : ~(rq[t].route = "redirect" /\ pc[t] # "idle")
    /\ \A k \in 1..MaxTasks : tasks[k].pc \in {"none", "done"}

\* C38: at quiescence the two counters agree. When no append and no
\* increment has failed and every background task has completed, then for
\* every code click_count equals the number of rows of clicks with the
\* code, and both equal the number of successful redirects of the code
C38_CountersAgree ==
    Quiescent =>
       \A code \in {Dup, Other} :
          /\ ClickCountOf(code) = Cardinality(EventsOf(code))
          /\ Cardinality(EventsOf(code)) = Cardinality(Redirected(code))

\* quiescence after two redirects of one code whose goroutines ran side by
\* side
C38_Witness ==
    /\ Quiescent
    /\ Cardinality(Redirected(Other)) = 2
    /\ ClickCountOf(Other) = 2
    /\ \A k \in 1..MaxTasks : tasks[k].snapshot = 0

----------------------------------------------------------------------------
(* C39 *)

\* the sum of the counts of a clicks_by_country map
RECURSIVE SumOf(_)
SumOf(m) ==
    IF DOMAIN m = {} THEN 0
    ELSE LET c == CHOOSE c \in DOMAIN m : TRUE
         IN m[c] + SumOf([d \in DOMAIN m \ {c} |-> m[d]])

\* the Analytics a has no more unique visitors, recent clicks or clicks by
\* country than it has total clicks
Consistent(a) ==
    /\ a.unique_visitors <= a.total_clicks
    /\ Len(a.recent_clicks) <= Min(10, a.total_clicks)
    /\ SumOf(a.clicks_by_country) <= a.total_clicks

\* C39: every Analytics result is an internally consistent snapshot, also
\* when clicks are recorded while it is read: unique_visitors <=
\* total_clicks, the number of recent_clicks <= min(10, total_clicks), and
\* the sum of the clicks_by_country counts <= total_clicks
C39_ConsistentSnapshot ==
    \A t \in Threads : AnsweredAnalytics(t) => Consistent(resp[t].body[1])

\* the Analytics a of code, read while the events of the code grew from
\* atCall to events: every field counts events that existed when its query
\* ran, and a is consistent when no event was recorded during the read
WithinRead(a, atCall, events) ==
    /\ atCall <= a.total_clicks
    /\ a.total_clicks <= events
    /\ a.unique_visitors <= events
    /\ Len(a.recent_clicks) <= Min(10, events)
    /\ SumOf(a.clicks_by_country) <= events
    /\ events = atCall => Consistent(a)

\* C39, as the code has it: GetAnalytics reads with six separate queries,
\* so each field is bounded by the events of the code at the moment of the
\* answer, total_clicks is at least the events at the call, and the result
\* is internally consistent whenever no click of the code was recorded
\* during the read
C39_ConsistentWhenUndisturbed ==
    [][\A t \in Threads :
          AnswersAnalytics(t) =>
             WithinRead(resp'[t].body[1], sv[t].atCall, Cardinality(EventsOf(rq[t].code)))]_vars

\* a result read while a click was recorded: it reports a unique visitor
\* and a recent click but no total click
C39_Witness ==
    \E t \in Threads :
       /\ AnsweredAnalytics(t)
       /\ sv[t].atCall = 0
       /\ resp[t].body[1].total_clicks = 0
       /\ resp[t].body[1].unique_visitors = 1
       /\ Len(resp[t].body[1].recent_clicks) = 1

====
